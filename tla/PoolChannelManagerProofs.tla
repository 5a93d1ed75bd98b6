---------------------- MODULE PoolChannelManagerProofs ----------------------
(* The registers of the pool's channel manager agree, a custom job finds its *)
(* channel and every block pays its connection's policy, for any number of   *)
(* miners, channels, templates and payouts.                                  *)
EXTENDS PoolChannelManager, TLAPS

----------------------------------------------------------------------------
(* The inductive invariant.                                                  *)

Channels == [kind : {"std", "ext"}, target : Targets, jobs : JobSets]
ChannelMaps == UNION {[S -> Channels] : S \in SUBSET ChannelIds}
Downstreams ==
    [std : BOOLEAN, custom : BOOLEAN, payout : Payouts \cup {NoPayout}, next : 2..MaxChannel + 1,
     group : JobSets, members : SUBSET ChannelIds, chans : ChannelMaps]

Connections == {"absent", "read", "bootstrap", "built", "sender", "setup", "running",
                "closing", "removing2", "removing3", "gone"}

\* A connection before its SetupConnection was accepted.
Early == {"absent", "read", "bootstrap", "built", "sender", "setup"}

Shape ==
    /\ tp \in [sent : 0..MaxTemplate, pending : 0..MaxTemplate]
    /\ lastFuture \in 0..MaxTemplate /\ lastPrevHash \in 0..MaxTemplate
    /\ downstreams \in SUBSET Miners /\ senders \in SUBSET Miners /\ spoken \in SUBSET Miners
    /\ vardiff \in SUBSET (Miners \X ChannelIds)
    /\ conn \in [Miners -> Connections]
    /\ seen \in [Miners -> [template : 0..MaxTemplate, prevHash : 0..MaxTemplate]]
    /\ cancelled \in BOOLEAN

\* The jobs of a channel that were built from a template pay p.
PaidBy(js, p) == \A j \in {js.active} \cup js.past \cup js.future : j.t # 0 => j.p = p

\* A connection has a payout mode while it has channels, and all of their jobs
\* pay it.
Sound(r) ==
    /\ r \in Downstreams
    /\ r.members \subseteq DOMAIN r.chans
    /\ r.payout = NoPayout <=> DOMAIN r.chans = {}
    /\ \A c \in DOMAIN r.chans : PaidBy(r.chans[c].jobs, r.payout)

DnInv == dn \in [Miners -> Downstreams] /\ \A d \in Miners : Sound(dn[d])

\* What the channel manager is doing it does for a miner that has spoken.
CmInv ==
    /\ cm.op \in {"idle", "stopped", "closing", "remove", "walk", "custom"}
    /\ cm.op = "walk" =>
          /\ cm = [op |-> "walk", what |-> cm.what, t |-> cm.t, future |-> cm.future,
                   todo |-> cm.todo, done |-> cm.done, out |-> cm.out]
          /\ cm.t \in Templates
    /\ cm.op = "remove" =>
          /\ cm = [op |-> "remove", d |-> cm.d, step |-> cm.step]
          /\ cm.d \in spoken /\ cm.step \in 1..3
    /\ cm.op = "custom" => cm.d \in spoken /\ cm.ch \in ChannelIds

\* How far a connection is.
ConnInv ==
    \A d \in Miners :
        /\ conn[d] # "absent" => lastFuture # 0 /\ lastPrevHash # 0
        /\ conn[d] \in {"read", "bootstrap"} => seen[d].template # 0
        /\ conn[d] \in Early => d \notin spoken /\ DOMAIN dn[d].chans = {}

StoreInv == Shape /\ DnInv /\ CmInv /\ ConnInv

\* Only a connection past its setup is registered, and a removal that has begun
\* has taken the downstream off `downstreams`.
RegInv ==
    /\ \A d \in downstreams : conn[d] \in {"setup", "running", "closing"}
    /\ \A d \in Miners : conn[d] = "sender" /\ cm.op # "stopped" => d \in senders
    /\ cm.op = "remove" /\ cm.step # 1 => cm.d \notin downstreams
    /\ RegisteredHaveSender
    /\ VardiffMatchesChannels

PoolInv == StoreInv /\ RegInv /\ CustomJobFindsChannel /\ BlocksPayPolicy

----------------------------------------------------------------------------
(* The operators on jobs, channels and connections.                          *)

\* What belongs to a map of channels.
LEMMA ChannelMap ==
    ASSUME NEW m
    PROVE  m \in ChannelMaps <=> /\ DOMAIN m \in SUBSET ChannelIds
                                 /\ m \in [DOMAIN m -> Channels]
  BY DEF ChannelMaps

\* The jobs of a new channel or group.
LEMMA NoJobsFacts == NoJobs \in JobSets /\ NoJobs.active = NoJob /\ NoJobs.past = {} /\ NoJobs.future = {}
  BY BoundsAssumption DEF NoJobs, JobSets, JobsOrNone

\* Adding a job for a later previous hash, and for the current one.
LEMMA AddFuture ==
    ASSUME NEW js \in JobSets, NEW job \in Jobs
    PROVE  LET r == AddJob(js, job, TRUE)
           IN  /\ r \in JobSets
               /\ r.active = js.active /\ r.past = js.past /\ r.future = js.future \cup {job}
  <1>1. AddJob(js, job, TRUE) = [js EXCEPT !.future = @ \cup {job}] BY Zenon DEF AddJob
  <1>2. js.future \cup {job} \in SUBSET Jobs BY DEF JobSets
  <1> QED BY <1>1, <1>2, Zenon DEF JobSets

LEMMA AddActive ==
    ASSUME NEW js \in JobSets, NEW job \in JobsOrNone
    PROVE  LET r == AddJob(js, job, FALSE)
           IN  /\ r \in JobSets
               /\ r.active = job /\ r.past = js.past \cup ({js.active} \ {NoJob})
               /\ r.future = js.future
  <1> DEFINE past == js.past \cup ({js.active} \ {NoJob})
  <1>1. AddJob(js, job, FALSE) = [js EXCEPT !.past = past, !.active = job] BY Zenon DEF AddJob
  <1>2. past \in SUBSET JobsOrNone BY DEF JobSets
  <1> HIDE DEF past
  <1>3. /\ [js EXCEPT !.past = past, !.active = job] \in JobSets
        /\ [js EXCEPT !.past = past, !.active = job].active = job
        /\ [js EXCEPT !.past = past, !.active = job].past = past
        /\ [js EXCEPT !.past = past, !.active = job].future = js.future
    BY <1>2, Zenon DEF JobSets
  <1> QED BY <1>1, <1>3, Zenon DEF past

\* Jobs that all pay p still do when one that does, or a custom one, joins them.
LEMMA StillPaid ==
    ASSUME NEW js, NEW r, NEW job, NEW p, PaidBy(js, p), job.t # 0 => job.p = p,
           \/ r.active = js.active /\ r.past = js.past /\ r.future = js.future \cup {job}
           \/ r.active = job /\ r.past = js.past \cup ({js.active} \ {NoJob}) /\ r.future = js.future
    PROVE  PaidBy(r, p)
  <1>1. \A j : j \in {r.active} \cup r.past \cup r.future =>
               j = job \/ j \in {js.active} \cup js.past \cup js.future
    OBVIOUS
  <1> QED BY <1>1, Zenon DEF PaidBy

\* A job of the connection's payout keeps a channel's jobs in it.
LEMMA AddJobKeeps ==
    ASSUME NEW js \in JobSets, NEW job \in Jobs, NEW future
    PROVE  /\ AddJob(js, job, future) \in JobSets
           /\ PaidBy(js, job.p) => PaidBy(AddJob(js, job, future), job.p)
  <1>1. CASE future
    <2>1. AddJob(js, job, future) = AddJob(js, job, TRUE) BY <1>1, Zenon DEF AddJob
    <2> DEFINE r == AddJob(js, job, TRUE)
    <2>2. r \in JobSets /\ r.active = js.active /\ r.past = js.past /\ r.future = js.future \cup {job}
      BY AddFuture, Zenon
    <2> HIDE DEF r
    <2>3. PaidBy(js, job.p) => PaidBy(r, job.p) BY <2>2, StillPaid, Zenon
    <2> QED BY <2>1, <2>2, <2>3, Zenon DEF r
  <1>2. CASE ~future
    <2>1. AddJob(js, job, future) = AddJob(js, job, FALSE) BY <1>2, Zenon DEF AddJob
    <2>2. job \in JobsOrNone BY Zenon DEF JobsOrNone
    <2> DEFINE r == AddJob(js, job, FALSE)
    <2>3. /\ r \in JobSets /\ r.active = job /\ r.past = js.past \cup ({js.active} \ {NoJob})
          /\ r.future = js.future
      BY <2>2, AddActive, Zenon
    <2> HIDE DEF r
    <2>4. PaidBy(js, job.p) => PaidBy(r, job.p) BY <2>3, StillPaid, Zenon
    <2> QED BY <2>1, <2>3, <2>4, Zenon DEF r
  <1> QED BY <1>1, <1>2, Zenon

\* A custom job pays nothing the pool knows of.
LEMMA AddCustomKeeps ==
    ASSUME NEW js \in JobSets, NEW p
    PROVE  /\ AddJob(js, CustomJob, FALSE) \in JobSets
           /\ PaidBy(js, p) => PaidBy(AddJob(js, CustomJob, FALSE), p)
  <1>1. CustomJob.t = 0 BY DEF CustomJob
  <1>2. CustomJob \in JobsOrNone BY Zenon DEF JobsOrNone
  <1> DEFINE r == AddJob(js, CustomJob, FALSE)
  <1>3. /\ r \in JobSets /\ r.active = CustomJob /\ r.past = js.past \cup ({js.active} \ {NoJob})
        /\ r.future = js.future
    BY <1>2, AddActive, Zenon
  <1> HIDE DEF r
  <1>4. PaidBy(js, p) => PaidBy(r, p) BY <1>1, <1>3, StillPaid, Zenon
  <1> QED BY <1>3, <1>4, Zenon DEF r

\* A previous hash makes one of the future jobs the active one.
LEMMA ActivateKeeps ==
    ASSUME NEW js \in JobSets, NEW t \in 0..MaxTemplate, KnowsTemplate(js, t), NEW p
    PROVE  /\ Activate(js, t) \in JobSets
           /\ PaidBy(js, p) => PaidBy(Activate(js, t), p)
  <1> DEFINE a == CHOOSE j \in js.future : j.t = t
  <1>1. a \in js.future BY Zenon DEF KnowsTemplate
  <1>2. Activate(js, t) = [active |-> a, future |-> {}, past |-> {}, tip |-> t] BY Zenon DEF Activate
  <1> HIDE DEF a
  <1>3. a \in Jobs /\ a \in JobsOrNone BY <1>1 DEF JobSets, JobsOrNone
  <1> QED BY <1>1, <1>2, <1>3 DEF JobSets, PaidBy

\* The first job of a group or a channel, made active at once.
LEMMA FirstJob ==
    ASSUME NEW job \in Jobs, NEW t \in 0..MaxTemplate, KnowsTemplate(AddJob(NoJobs, job, TRUE), t)
    PROVE  /\ Activate(AddJob(NoJobs, job, TRUE), t) \in JobSets
           /\ PaidBy(Activate(AddJob(NoJobs, job, TRUE), t), job.p)
  <1>1. PaidBy(NoJobs, job.p)
    <2>1. NoJob.t = 0 BY DEF NoJob
    <2> QED BY <2>1, NoJobsFacts, Zenon DEF PaidBy
  <1> QED BY <1>1, NoJobsFacts, AddJobKeeps, ActivateKeeps, Zenon

\* A channel takes other jobs, or another target.
LEMMA ChannelTakes ==
    ASSUME NEW ch \in Channels, NEW js \in JobSets, NEW x \in Targets
    PROVE  /\ [ch EXCEPT !.jobs = js] \in Channels /\ [ch EXCEPT !.jobs = js].jobs = js
           /\ [ch EXCEPT !.target = x] \in Channels /\ [ch EXCEPT !.target = x].jobs = ch.jobs
  BY Zenon DEF Channels

\* The channels of a connection.
LEMMA ChannelsOfSound ==
    ASSUME NEW r, Sound(r)
    PROVE  /\ r \in Downstreams
           /\ DOMAIN r.chans \in SUBSET ChannelIds /\ r.chans \in [DOMAIN r.chans -> Channels]
           /\ \A c \in DOMAIN r.chans : r.chans[c] \in Channels /\ r.chans[c].jobs \in JobSets
           /\ r.group \in JobSets /\ r.payout \in Payouts \cup {NoPayout} /\ r.next \in 2..MaxChannel + 1
           /\ \A c \in DOMAIN r.chans : PaidBy(r.chans[c].jobs, r.payout)
           /\ r.members \subseteq DOMAIN r.chans
           /\ r.payout = NoPayout <=> DOMAIN r.chans = {}
  <1>1. /\ r \in Downstreams /\ r.chans \in ChannelMaps /\ r.group \in JobSets
        /\ r.payout \in Payouts \cup {NoPayout} /\ r.next \in 2..MaxChannel + 1
    BY Zenon DEF Sound, Downstreams
  <1>2. DOMAIN r.chans \in SUBSET ChannelIds /\ r.chans \in [DOMAIN r.chans -> Channels]
    BY <1>1, ChannelMap, Zenon
  <1>3. \A c \in DOMAIN r.chans : r.chans[c] \in Channels BY <1>2, Zenon
  <1>4. \A ch \in Channels : ch.jobs \in JobSets BY Zenon DEF Channels
  <1>5. /\ r.members \subseteq DOMAIN r.chans
        /\ r.payout = NoPayout <=> DOMAIN r.chans = {}
        /\ \A c \in DOMAIN r.chans : PaidBy(r.chans[c].jobs, r.payout)
    BY Zenon DEF Sound
  <1> QED BY <1>1, <1>2, <1>3, <1>4, <1>5, Zenon

\* A connection keeps its channels while their jobs and its group's change.
Rechannel(r, m) == [r EXCEPT !.chans = m]
Regroup(r, g, m) == [r EXCEPT !.group = g, !.chans = m]

LEMMA SameChannels ==
    ASSUME NEW r, Sound(r), NEW g \in JobSets,
           NEW m \in [DOMAIN r.chans -> Channels],
           \A c \in DOMAIN r.chans : PaidBy(m[c].jobs, r.payout)
    PROVE  /\ Sound(Regroup(r, g, m)) /\ DOMAIN Regroup(r, g, m).chans = DOMAIN r.chans
           /\ Sound(Rechannel(r, m)) /\ DOMAIN Rechannel(r, m).chans = DOMAIN r.chans
  <1> DEFINE s == Regroup(r, g, m)
             u == Rechannel(r, m)
  <1>1. DOMAIN m = DOMAIN r.chans /\ m \in ChannelMaps BY ChannelsOfSound, ChannelMap, Zenon
  <1>2. s \in Downstreams /\ s.chans = m /\ s.payout = r.payout /\ s.members = r.members
    BY <1>1, ChannelsOfSound, Zenon DEF Downstreams, Regroup
  <1>3. u \in Downstreams /\ u.chans = m /\ u.payout = r.payout /\ u.members = r.members
    BY <1>1, ChannelsOfSound, Zenon DEF Downstreams, Rechannel
  <1> HIDE DEF s, u
  <1>4. Sound(s) /\ DOMAIN s.chans = DOMAIN r.chans BY <1>1, <1>2, ChannelsOfSound, Zenon DEF Sound
  <1>5. Sound(u) /\ DOMAIN u.chans = DOMAIN r.chans BY <1>1, <1>3, ChannelsOfSound, Zenon DEF Sound
  <1> QED BY <1>4, <1>5, Zenon DEF s, u

\* A template at one connection.
LEMMA TemplateAtKeeps ==
    ASSUME NEW r, Sound(r), cm.t \in Templates
    PROVE  Sound(TemplateAt(r)) /\ DOMAIN TemplateAt(r).chans = DOMAIN r.chans
  <1> DEFINE job == [t |-> cm.t, p |-> OutputsFor(r)]
             g == AddJob(r.group, job, cm.future)
             m == [c \in DOMAIN r.chans |-> WithJob(r.chans[c], job)]
  <1>1. TemplateAt(r) = Regroup(r, g, m) BY Zenon DEF TemplateAt, Regroup
  <1>2. job \in Jobs /\ (DOMAIN r.chans # {} => job.p = r.payout)
    BY ChannelsOfSound, PoolPayoutAssumption DEF Jobs, OutputsFor
  <1> HIDE DEF job
  <1>3. g \in JobSets BY <1>2, ChannelsOfSound, AddJobKeeps, Zenon
  <1>4. ASSUME NEW c \in DOMAIN r.chans
        PROVE  m[c] \in Channels /\ PaidBy(m[c].jobs, r.payout)
    <2> DEFINE js == AddJob(r.chans[c].jobs, job, cm.future)
    <2>1. js \in JobSets /\ PaidBy(js, r.payout)
      BY <1>2, ChannelsOfSound, AddJobKeeps, Zenon
    <2>2. m[c] = [r.chans[c] EXCEPT !.jobs = js] BY Zenon DEF WithJob
    <2> HIDE DEF js, m
    <2>3. r.chans[c] \in Channels BY ChannelsOfSound, Zenon
    <2>4. m[c] \in Channels /\ m[c].jobs = js
      BY <2>1, <2>2, <2>3, Zenon DEF Channels
    <2> QED BY <2>1, <2>4, Zenon
  <1>5. m \in [DOMAIN r.chans -> Channels] BY <1>4, Zenon
  <1>6. \A c \in DOMAIN r.chans : PaidBy(m[c].jobs, r.payout) BY <1>4, Zenon
  <1> HIDE DEF m, g
  <1>7. Sound(Regroup(r, g, m)) /\ DOMAIN Regroup(r, g, m).chans = DOMAIN r.chans
    BY <1>3, <1>5, <1>6, SameChannels
  <1> QED BY <1>1, <1>7, Zenon

\* A previous hash at one connection, all of whose channels know the template.
LEMMA PrevHashAtKeeps ==
    ASSUME NEW r, Sound(r), cm.t \in Templates, ~PrevHashFails(r)
    PROVE  Sound(PrevHashAt(r)) /\ DOMAIN PrevHashAt(r).chans = DOMAIN r.chans
  <1> DEFINE g == Activate(r.group, cm.t)
             m == [c \in DOMAIN r.chans |-> WithPrevHash(r.chans[c])]
  <1>0. cm.t \in 0..MaxTemplate BY BoundsAssumption DEF Templates
  <1>1. PrevHashAt(r) = Regroup(r, g, m) BY Zenon DEF PrevHashAt, Regroup
  <1>2. KnowsTemplate(r.group, cm.t) /\ \A c \in DOMAIN r.chans : KnowsTemplate(r.chans[c].jobs, cm.t)
    BY Zenon DEF PrevHashFails
  <1>3. g \in JobSets BY <1>0, <1>2, ChannelsOfSound, ActivateKeeps, Zenon
  <1>4. ASSUME NEW c \in DOMAIN r.chans
        PROVE  m[c] \in Channels /\ PaidBy(m[c].jobs, r.payout)
    <2> DEFINE js == Activate(r.chans[c].jobs, cm.t)
    <2>1. js \in JobSets /\ PaidBy(js, r.payout)
      BY <1>0, <1>2, ChannelsOfSound, ActivateKeeps, Zenon
    <2>2. m[c] = [r.chans[c] EXCEPT !.jobs = js] BY Zenon DEF WithPrevHash
    <2> HIDE DEF js, m
    <2>3. r.chans[c] \in Channels BY ChannelsOfSound, Zenon
    <2>4. m[c] \in Channels /\ m[c].jobs = js
      BY <2>1, <2>2, <2>3, Zenon DEF Channels
    <2> QED BY <2>1, <2>4, Zenon
  <1>5. m \in [DOMAIN r.chans -> Channels] BY <1>4, Zenon
  <1>6. \A c \in DOMAIN r.chans : PaidBy(m[c].jobs, r.payout) BY <1>4, Zenon
  <1> HIDE DEF m, g
  <1>7. Sound(Regroup(r, g, m)) /\ DOMAIN Regroup(r, g, m).chans = DOMAIN r.chans
    BY <1>3, <1>5, <1>6, SameChannels
  <1> QED BY <1>1, <1>7, Zenon

\* A connection that has just been accepted.
LEMMA NewDownstreamSound == Sound(NewDownstream) /\ DOMAIN NewDownstream.chans = {}
  <1> DEFINE m == [c \in {} |-> NoJobs]
  <1>1. m \in ChannelMaps /\ DOMAIN m = {}
    <2>1. m \in [{} -> Channels] /\ DOMAIN m = {} BY Zenon
    <2>2. {} \in SUBSET ChannelIds BY Zenon
    <2> QED BY <2>1, <2>2, ChannelMap, Zenon
  <1>2. NewDownstream = [std |-> FALSE, custom |-> FALSE, payout |-> NoPayout, next |-> 2,
                         group |-> NoJobs, members |-> {}, chans |-> m]
    BY Zenon DEF NewDownstream
  <1> HIDE DEF m
  <1>3. NewDownstream.payout = NoPayout /\ NewDownstream.members = {} /\ NewDownstream.chans = m
    BY <1>2, Zenon
  <1>4. /\ FALSE \in BOOLEAN /\ NoPayout \in Payouts \cup {NoPayout} /\ {} \in SUBSET ChannelIds
        /\ 2 \in 2..MaxChannel + 1
    BY BoundsAssumption
  <1>5. NewDownstream \in Downstreams BY <1>1, <1>2, <1>4, NoJobsFacts, Zenon DEF Downstreams
  <1> QED BY <1>1, <1>3, <1>5, Zenon DEF Sound

\* A connection uses up a channel id, makes its group channel, learns its flags.
LEMMA OtherFields ==
    ASSUME NEW r, Sound(r), NEW n \in 2..MaxChannel + 1, NEW g \in JobSets,
           NEW std \in BOOLEAN, NEW custom \in BOOLEAN
    PROVE  /\ Sound([r EXCEPT !.next = n]) /\ [r EXCEPT !.next = n].chans = r.chans
           /\ Sound([r EXCEPT !.group = g]) /\ [r EXCEPT !.group = g].chans = r.chans
           /\ Sound([r EXCEPT !.std = std, !.custom = custom])
           /\ [r EXCEPT !.std = std, !.custom = custom].chans = r.chans
  <1> DEFINE x == [r EXCEPT !.next = n]
             y == [r EXCEPT !.group = g]
             z == [r EXCEPT !.std = std, !.custom = custom]
  <1>0. r \in Downstreams BY Zenon DEF Sound
  <1>1. x \in Downstreams /\ x.chans = r.chans /\ x.payout = r.payout /\ x.members = r.members
    BY <1>0, Zenon DEF Downstreams
  <1>2. y \in Downstreams /\ y.chans = r.chans /\ y.payout = r.payout /\ y.members = r.members
    BY <1>0, Zenon DEF Downstreams
  <1>3. z \in Downstreams /\ z.chans = r.chans /\ z.payout = r.payout /\ z.members = r.members
    BY <1>0, Zenon DEF Downstreams
  <1> HIDE DEF x, y, z
  <1>4. Sound(x) BY <1>1, Zenon DEF Sound
  <1>5. Sound(y) BY <1>2, Zenon DEF Sound
  <1>6. Sound(z) BY <1>3, Zenon DEF Sound
  <1> QED BY <1>1, <1>2, <1>3, <1>4, <1>5, <1>6, Zenon DEF x, y, z

\* A channel is opened under the payout of the connection, or its first one.
LEMMA WithChannelKeeps ==
    ASSUME NEW r, Sound(r), NEW p \in Payouts, PayoutIsCompatible(r, p), r.next <= MaxChannel,
           NEW ch \in Channels, PaidBy(ch.jobs, p), NEW grouped
    PROVE  /\ Sound(WithChannel(r, r.next, ch, p, grouped))
           /\ DOMAIN WithChannel(r, r.next, ch, p, grouped).chans = DOMAIN r.chans \cup {r.next}
  <1> DEFINE c == r.next
             D == DOMAIN r.chans \cup {c}
             m == [k \in D |-> IF k = c THEN ch ELSE r.chans[k]]
             ms == IF grouped THEN r.members \cup {c} ELSE r.members
             s == WithChannel(r, c, ch, p, grouped)
  <1>1. c \in ChannelIds /\ c + 1 \in 2..MaxChannel + 1
    BY ChannelsOfSound, BoundsAssumption DEF ChannelIds
  <1>2. s = [r EXCEPT !.next = c + 1, !.payout = p, !.members = ms, !.chans = m]
    BY Zenon DEF WithChannel
  <1> HIDE DEF c
  <1>3. D \in SUBSET ChannelIds BY <1>1, ChannelsOfSound, Zenon
  <1>4. \A k \in D : m[k] = IF k = c THEN ch ELSE r.chans[k] BY Zenon
  <1>5. \A k \in D : k # c => k \in DOMAIN r.chans BY Zenon
  <1>6. m \in [D -> Channels]
    <2>1. \A k \in D : m[k] \in Channels BY <1>4, <1>5, ChannelsOfSound, Zenon
    <2> QED BY <2>1, Zenon
  <1>7. DOMAIN m = D BY Zenon
  <1>8. m \in ChannelMaps BY <1>3, <1>6, <1>7, ChannelMap, Zenon
  <1>9. ms \in SUBSET ChannelIds /\ ms \subseteq D BY <1>1, ChannelsOfSound, Zenon
  <1>10. \A k \in D : PaidBy(m[k].jobs, p)
    <2>1. ASSUME NEW k \in D, k # c PROVE PaidBy(r.chans[k].jobs, p)
      <3>1. k \in DOMAIN r.chans BY <1>5, <2>1, Zenon
      <3>2. r.payout = p BY <3>1, ChannelsOfSound, Zenon DEF PayoutIsCompatible
      <3> QED BY <3>1, <3>2, ChannelsOfSound, Zenon
    <2> QED BY <1>4, <2>1, Zenon
  <1> HIDE DEF m, ms
  <1>11. s \in Downstreams /\ s.chans = m /\ s.payout = p /\ s.members = ms
    <2>1. r \in Downstreams /\ p \in Payouts \cup {NoPayout} BY Zenon DEF Sound
    <2> QED BY <1>1, <1>2, <1>8, <1>9, <2>1, Zenon DEF Downstreams
  <1>12. c \in D /\ p # NoPayout BY PoolPayoutAssumption, Zenon
  <1> HIDE DEF s, D
  <1>13. Sound(s) BY <1>7, <1>9, <1>10, <1>11, <1>12, Zenon DEF Sound
  <1> QED BY <1>7, <1>11, <1>13, Zenon DEF s, D, c

\* A channel is closed; the payout goes with the last one.
LEMMA WithoutChannelKeeps ==
    ASSUME NEW r, Sound(r), NEW c \in DOMAIN r.chans
    PROVE  /\ Sound(WithoutChannel(r, c))
           /\ DOMAIN WithoutChannel(r, c).chans = DOMAIN r.chans \ {c}
  <1> DEFINE D == DOMAIN r.chans \ {c}
             m == [k \in D |-> r.chans[k]]
             p == IF DOMAIN r.chans \subseteq {c} THEN NoPayout ELSE r.payout
             s == WithoutChannel(r, c)
  <1>1. s = [r EXCEPT !.members = r.members \ {c}, !.chans = m, !.payout = p] BY Zenon DEF WithoutChannel
  <1>2. D \in SUBSET ChannelIds BY ChannelsOfSound, Zenon
  <1>3. m \in [D -> Channels] /\ DOMAIN m = D /\ \A k \in D : m[k] = r.chans[k]
    <2>1. \A k \in D : r.chans[k] \in Channels BY ChannelsOfSound, Zenon
    <2> QED BY <2>1, Zenon
  <1>4. m \in ChannelMaps BY <1>2, <1>3, ChannelMap, Zenon
  <1>5. p \in Payouts \cup {NoPayout} BY ChannelsOfSound, Zenon
  <1>6. r.members \ {c} \in SUBSET ChannelIds /\ r.members \ {c} \subseteq D BY ChannelsOfSound, Zenon
  <1>7. p = NoPayout <=> D = {} BY ChannelsOfSound, Zenon
  <1>8. \A k \in D : k \in DOMAIN r.chans /\ p = r.payout BY Zenon
  <1>9. \A k \in D : PaidBy(m[k].jobs, p) BY <1>3, <1>8, ChannelsOfSound, Zenon
  <1> HIDE DEF m, p
  <1>10. s \in Downstreams /\ s.chans = m /\ s.payout = p /\ s.members = r.members \ {c}
    <2>1. r \in Downstreams BY Zenon DEF Sound
    <2> QED BY <1>1, <1>4, <1>5, <1>6, <2>1, Zenon DEF Downstreams
  <1> HIDE DEF s, D
  <1>11. Sound(s) BY <1>3, <1>6, <1>7, <1>9, <1>10, Zenon DEF Sound
  <1> QED BY <1>3, <1>10, <1>11, Zenon DEF s, D

\* One channel of a connection changes, its jobs stay paid.
LEMMA OneChannel ==
    ASSUME NEW r, Sound(r), NEW c \in DOMAIN r.chans, NEW ch \in Channels, PaidBy(ch.jobs, r.payout)
    PROVE  /\ Sound(Rechannel(r, [r.chans EXCEPT ![c] = ch]))
           /\ DOMAIN Rechannel(r, [r.chans EXCEPT ![c] = ch]).chans = DOMAIN r.chans
  <1> DEFINE m == [r.chans EXCEPT ![c] = ch]
  <1>1. m \in [DOMAIN r.chans -> Channels] /\ \A k \in DOMAIN r.chans : m[k] = IF k = c THEN ch ELSE r.chans[k]
    BY ChannelsOfSound, Zenon
  <1>2. \A k \in DOMAIN r.chans : PaidBy(m[k].jobs, r.payout) BY <1>1, ChannelsOfSound, Zenon
  <1> HIDE DEF m
  <1>3. Sound(Rechannel(r, m)) /\ DOMAIN Rechannel(r, m).chans = DOMAIN r.chans
    BY <1>1, <1>2, NoJobsFacts, SameChannels
  <1> QED BY <1>3 DEF m

----------------------------------------------------------------------------
(* What each step does to the connections' records.                          *)

Kept == \A d \in Miners : DOMAIN dn'[d].chans = DOMAIN dn[d].chans

\* A step on one record.
LEMMA OneRecord ==
    ASSUME DnInv, NEW d \in Miners, NEW s, Sound(s), dn' = [dn EXCEPT ![d] = s]
    PROVE  /\ DnInv' /\ dn'[d] = s /\ \A e \in Miners : e # d => dn'[e] = dn[e]
           /\ DOMAIN s.chans = DOMAIN dn[d].chans => Kept
  <1>1. s \in Downstreams /\ dn \in [Miners -> Downstreams] BY Zenon DEF Sound, DnInv
  <1>2. /\ dn' \in [Miners -> Downstreams] /\ dn'[d] = s
        /\ \A e \in Miners : e # d => dn'[e] = dn[e]
    BY <1>1, Zenon
  <1>3. DnInv' BY <1>2, Zenon DEF DnInv, Sound
  <1> QED BY <1>2, <1>3, Zenon DEF Kept

\* A step that leaves them all alone.
LEMMA NoRecord ==
    ASSUME DnInv, UNCHANGED dn
    PROVE  DnInv' /\ Kept
  BY Zenon DEF DnInv, Sound, Kept

\* The group channel of a new connection.
LEMMA DnBootstrap ==
    ASSUME StoreInv, NEW d \in Miners, BootstrapGroupChannel(d)
    PROVE  DnInv' /\ Kept
  <1> DEFINE job == [t |-> seen[d].template, p |-> PoolPayout]
             js == AddJob(NoJobs, job, TRUE)
             g == Activate(js, seen[d].prevHash)
  <1>0. DnInv /\ Sound(dn[d]) BY Zenon DEF StoreInv, DnInv
  <1>1. /\ seen[d].template \in 0..MaxTemplate /\ seen[d].prevHash \in 0..MaxTemplate
        /\ seen[d].template # 0
    <2>1. seen[d] \in [template : 0..MaxTemplate, prevHash : 0..MaxTemplate] BY Zenon DEF StoreInv, Shape
    <2>2. conn[d] = "bootstrap" BY Zenon DEF BootstrapGroupChannel
    <2> QED BY <2>1, <2>2, Zenon DEF StoreInv, ConnInv
  <1>2. job \in Jobs
    <2>1. seen[d].template \in Templates BY <1>1, BoundsAssumption DEF Templates
    <2> QED BY <2>1, PoolPayoutAssumption, Zenon DEF Jobs
  <1> HIDE DEF job
  <1>3. CASE KnowsTemplate(js, seen[d].prevHash)
    <2>1. dn' = [dn EXCEPT ![d] = [dn[d] EXCEPT !.group = g]]
      BY <1>3, Zenon DEF BootstrapGroupChannel, job
    <2>2. g \in JobSets BY <1>1, <1>2, <1>3, FirstJob, Zenon
    <2> HIDE DEF g
    <2>3. 2 \in 2..MaxChannel + 1 /\ FALSE \in BOOLEAN BY BoundsAssumption
    <2>4. Sound([dn[d] EXCEPT !.group = g]) /\ [dn[d] EXCEPT !.group = g].chans = dn[d].chans
      BY <1>0, <2>2, <2>3, OtherFields, Zenon
    <2> QED BY <1>0, <2>1, <2>4, OneRecord, Zenon
  <1>4. CASE ~KnowsTemplate(js, seen[d].prevHash)
    <2>1. UNCHANGED dn BY <1>4, Zenon DEF BootstrapGroupChannel, job
    <2> QED BY <1>0, <2>1, NoRecord, Zenon
  <1> QED BY <1>3, <1>4, Zenon

\* The flags of a SetupConnection.
LEMMA DnSetup ==
    ASSUME StoreInv, NEW d \in Miners, SetupConnection(d)
    PROVE  DnInv' /\ Kept
  <1>0. DnInv /\ Sound(dn[d]) BY Zenon DEF StoreInv, DnInv
  <1>1. CASE SetupRefused(d)
    <2>1. UNCHANGED dn BY <1>1, Zenon DEF SetupRefused
    <2> QED BY <1>0, <2>1, NoRecord, Zenon
  <1>2. ASSUME NEW flags \in MinerFlags[d],
               dn' = [dn EXCEPT ![d].std = "std" \in flags, ![d].custom = "custom" \in flags]
        PROVE  DnInv' /\ Kept
    <2> DEFINE s == [dn[d] EXCEPT !.std = "std" \in flags, !.custom = "custom" \in flags]
    <2>1. dn' = [dn EXCEPT ![d] = s] BY <1>0, <1>2, Zenon DEF DnInv
    <2>2. 2 \in 2..MaxChannel + 1 /\ ("std" \in flags) \in BOOLEAN /\ ("custom" \in flags) \in BOOLEAN
      BY BoundsAssumption
    <2>3. Sound(s) /\ s.chans = dn[d].chans BY <1>0, <2>2, OtherFields, NoJobsFacts, Zenon
    <2> HIDE DEF s
    <2> QED BY <1>0, <2>1, <2>3, OneRecord, Zenon
  <1> QED BY <1>1, <1>2, Zenon DEF SetupConnection

\* A template or a previous hash reaches one connection.
LEMMA DnWalk ==
    ASSUME StoreInv, NEW d \in Miners, WalkVisit(d)
    PROVE  DnInv' /\ Kept
  <1>0. DnInv /\ Sound(dn[d]) /\ cm.t \in Templates
    <2>1. cm.op = "walk" BY Zenon DEF WalkVisit
    <2> QED BY <2>1, Zenon DEF StoreInv, DnInv, CmInv
  <1>1. \/ UNCHANGED dn
        \/ dn' = [dn EXCEPT ![d] = TemplateAt(dn[d])]
        \/ ~PrevHashFails(dn[d]) /\ dn' = [dn EXCEPT ![d] = PrevHashAt(dn[d])]
    BY Zenon DEF WalkVisit
  <1>2. CASE UNCHANGED dn BY <1>0, <1>2, NoRecord, Zenon
  <1>3. CASE dn' = [dn EXCEPT ![d] = TemplateAt(dn[d])]
    <2>1. /\ Sound(TemplateAt(dn[d]))
          /\ DOMAIN TemplateAt(dn[d]).chans = DOMAIN dn[d].chans
      BY <1>0, TemplateAtKeeps, Zenon
    <2> QED BY <1>0, <1>3, <2>1, OneRecord, Zenon
  <1>4. CASE ~PrevHashFails(dn[d]) /\ dn' = [dn EXCEPT ![d] = PrevHashAt(dn[d])]
    <2>1. /\ Sound(PrevHashAt(dn[d]))
          /\ DOMAIN PrevHashAt(dn[d]).chans = DOMAIN dn[d].chans
      BY <1>0, <1>4, PrevHashAtKeeps, Zenon
    <2> QED BY <1>0, <1>4, <2>1, OneRecord, Zenon
  <1> QED BY <1>1, <1>2, <1>3, <1>4, Zenon

\* A connection gets or loses a channel, and `vardiff` an entry.
Opened(d) ==
    \E c \in ChannelIds :
        /\ DOMAIN dn'[d].chans = DOMAIN dn[d].chans \cup {c}
        /\ vardiff' = vardiff \cup {<<d, c>>}
        /\ \A e \in Miners : e # d => dn'[e] = dn[e]
Closed(d) ==
    \E c \in ChannelIds :
        /\ DOMAIN dn'[d].chans = DOMAIN dn[d].chans \ {c}
        /\ vardiff' = vardiff \ {<<d, c>>}
        /\ \A e \in Miners : e # d => dn'[e] = dn[e]

\* A channel with its first jobs joins its connection.
LEMMA DnWithChannel ==
    ASSUME DnInv, NEW d \in Miners, dn[d].next <= MaxChannel, NEW p \in Payouts,
           PayoutIsCompatible(dn[d], p), NEW kind \in {"std", "ext"}, NEW x \in Targets,
           NEW js \in JobSets, PaidBy(js, p), NEW grouped,
           dn' = [dn EXCEPT ![d] = WithChannel(dn[d], dn[d].next,
                                               [kind |-> kind, target |-> x, jobs |-> js], p, grouped)],
           vardiff' = vardiff \cup {<<d, dn[d].next>>}
    PROVE  DnInv' /\ Opened(d)
  <1> DEFINE ch == [kind |-> kind, target |-> x, jobs |-> js]
             r == dn[d]
             s == WithChannel(r, r.next, ch, p, grouped)
  <1>1. ch \in Channels /\ ch.jobs = js BY Zenon DEF Channels
  <1>2. Sound(r) BY Zenon DEF DnInv
  <1>3. r.next \in ChannelIds BY <1>2, ChannelsOfSound DEF ChannelIds
  <1> HIDE DEF ch
  <1>4. Sound(s) /\ DOMAIN s.chans = DOMAIN r.chans \cup {r.next} BY <1>1, <1>2, WithChannelKeeps, ZenonT(30)
  <1>5. dn' = [dn EXCEPT ![d] = s] BY Zenon DEF ch
  <1> HIDE DEF s
  <1>6. DnInv' /\ dn'[d] = s /\ \A e \in Miners : e # d => dn'[e] = dn[e]
    BY <1>4, <1>5, OneRecord, Zenon
  <1> QED BY <1>3, <1>4, <1>6, Zenon DEF Opened

\* A channel id is used up.
LEMMA DnNextId ==
    ASSUME DnInv, NEW d \in Miners, dn[d].next <= MaxChannel,
           dn' = [dn EXCEPT ![d] = [dn[d] EXCEPT !.next = dn[d].next + 1]]
    PROVE  DnInv' /\ Kept
  <1> DEFINE n == dn[d].next + 1
             s == [dn[d] EXCEPT !.next = n]
  <1>1. Sound(dn[d]) BY Zenon DEF DnInv
  <1>2. n \in 2..MaxChannel + 1 BY <1>1, ChannelsOfSound, BoundsAssumption
  <1> HIDE DEF n
  <1>3. FALSE \in BOOLEAN OBVIOUS
  <1>4. Sound(s) /\ s.chans = dn[d].chans BY <1>1, <1>2, <1>3, NoJobsFacts, OtherFields, Zenon
  <1>5. dn' = [dn EXCEPT ![d] = s] BY Zenon DEF n
  <1> HIDE DEF s
  <1> QED BY <1>4, <1>5, OneRecord, Zenon

\* A channel that mines the pool's templates is opened.
LEMMA DnOpenWithTemplate ==
    ASSUME StoreInv, NEW d \in spoken, dn[d].next <= MaxChannel, NEW p \in Payouts,
           PayoutIsCompatible(dn[d], p), NEW kind \in {"std", "ext"}, OpenWithTemplate(d, kind, p)
    PROVE  DnInv' /\ (Opened(d) \/ (Kept /\ UNCHANGED vardiff))
  <1> DEFINE job == [t |-> lastFuture, p |-> p]
             js == AddJob(NoJobs, job, TRUE)
             g == Activate(js, lastPrevHash)
  <1>0. DnInv /\ d \in Miners BY Zenon DEF StoreInv, Shape
  <1>1. lastFuture \in 0..MaxTemplate /\ lastPrevHash \in 0..MaxTemplate /\ lastFuture # 0
    <2>1. conn[d] # "absent" BY <1>0, Zenon DEF StoreInv, ConnInv, Early
    <2> QED BY <1>0, <2>1, Zenon DEF StoreInv, Shape, ConnInv
  <1>2. job \in Jobs /\ job.p = p
    <2>1. lastFuture \in Templates BY <1>1, BoundsAssumption DEF Templates
    <2> QED BY <2>1, Zenon DEF Jobs
  <1> HIDE DEF job
  <1>3. CASE KnowsTemplate(js, lastPrevHash)
    <2>1. PICK x \in Targets :
            /\ dn' = [dn EXCEPT ![d] = WithChannel(dn[d], dn[d].next,
                                                   [kind |-> kind, target |-> x, jobs |-> g], p, ~dn[d].std)]
            /\ vardiff' = vardiff \cup {<<d, dn[d].next>>}
      BY <1>3, Zenon DEF OpenWithTemplate, job
    <2>2. g \in JobSets /\ PaidBy(g, p) BY <1>1, <1>2, <1>3, FirstJob, Zenon
    <2> HIDE DEF g
    <2> QED BY <1>0, <2>1, <2>2, DnWithChannel, ZenonT(30)
  <1>4. CASE ~KnowsTemplate(js, lastPrevHash)
    <2>1. dn' = [dn EXCEPT ![d] = [dn[d] EXCEPT !.next = dn[d].next + 1]] /\ UNCHANGED vardiff
      BY <1>4, Zenon DEF OpenWithTemplate, job
    <2> QED BY <1>0, <2>1, DnNextId, Zenon
  <1> QED BY <1>3, <1>4, Zenon

\* A channel for custom work is opened.
LEMMA DnOpenForCustomWork ==
    ASSUME StoreInv, NEW d \in Miners, dn[d].next <= MaxChannel, NEW p \in Payouts,
           PayoutIsCompatible(dn[d], p), OpenForCustomWork(d, p)
    PROVE  DnInv' /\ Opened(d)
  <1> DEFINE js == MoveTip(NoJobs, lastPrevHash)
  <1>0. DnInv BY Zenon DEF StoreInv
  <1>1. js \in JobSets /\ PaidBy(js, p)
    <2>1. NoJob.t = 0 BY DEF NoJob
    <2>2. lastPrevHash \in 0..MaxTemplate /\ {} \in SUBSET JobsOrNone BY Zenon DEF StoreInv, Shape
    <2>3. js \in JobSets /\ js.active = NoJob /\ js.past = {} /\ js.future = {}
      BY <2>2, NoJobsFacts, Zenon DEF MoveTip, JobSets
    <2> HIDE DEF js
    <2> QED BY <2>1, <2>3, Zenon DEF PaidBy
  <1>2. PICK x \in Targets :
          /\ dn' = [dn EXCEPT ![d] = WithChannel(dn[d], dn[d].next,
                                                 [kind |-> "ext", target |-> x, jobs |-> js], p, FALSE)]
          /\ vardiff' = vardiff \cup {<<d, dn[d].next>>}
    BY Zenon DEF OpenForCustomWork
  <1>3. "ext" \in {"std", "ext"} BY Zenon
  <1> HIDE DEF js
  <1> QED BY <1>0, <1>1, <1>2, <1>3, DnWithChannel, ZenonT(30)

\* The two handlers that open a channel.
LEMMA DnOpen ==
    ASSUME StoreInv, NEW d \in Miners,
           HandleOpenStandardMiningChannel(d) \/ HandleOpenExtendedMiningChannel(d)
    PROVE  DnInv' /\ (Opened(d) \/ (Kept /\ UNCHANGED vardiff))
  <1>0. DnInv /\ d \in spoken /\ dn[d].next <= MaxChannel
    BY Zenon DEF StoreInv, HandleOpenStandardMiningChannel, HandleOpenExtendedMiningChannel, Serves, Takes
  <1>1. CASE UNCHANGED <<dn, vardiff>> BY <1>0, <1>1, NoRecord, Zenon
  <1>2. CASE OpenInvalid(d)
    <2>1. dn' = [dn EXCEPT ![d] = [dn[d] EXCEPT !.next = dn[d].next + 1]] /\ UNCHANGED vardiff
      BY <1>2, Zenon DEF OpenInvalid
    <2> QED BY <1>0, <2>1, DnNextId, Zenon
  <1>3. ASSUME NEW p \in Payouts, NEW kind \in {"std", "ext"}, ~OpenRefused(dn[d], kind, p),
               OpenWithTemplate(d, kind, p)
        PROVE  DnInv' /\ (Opened(d) \/ (Kept /\ UNCHANGED vardiff))
    <2>1. PayoutIsCompatible(dn[d], p) BY <1>3, Zenon DEF OpenRefused
    <2> QED BY <1>0, <1>3, <2>1, DnOpenWithTemplate, Zenon
  <1>4. ASSUME NEW p \in Payouts, ~OpenRefused(dn[d], "ext", p), OpenForCustomWork(d, p)
        PROVE  DnInv' /\ Opened(d)
    <2>1. PayoutIsCompatible(dn[d], p) BY <1>4, Zenon DEF OpenRefused
    <2> QED BY <1>0, <1>4, <2>1, DnOpenForCustomWork, Zenon
  <1>5. CASE HandleOpenStandardMiningChannel(d)
    <2>1. PICK p \in Payouts : IF OpenRefused(dn[d], "std", p)
                                 THEN UNCHANGED <<dn, vardiff, miner, cm, cancelled>>
                                 ELSE OpenInvalid(d) \/ OpenWithTemplate(d, "std", p)
      BY <1>5, Zenon DEF HandleOpenStandardMiningChannel
    <2> QED BY <1>1, <1>2, <1>3, <2>1, Zenon
  <1>6. CASE HandleOpenExtendedMiningChannel(d)
    <2>1. PICK p \in Payouts : IF OpenRefused(dn[d], "ext", p)
                                 THEN UNCHANGED <<dn, vardiff, miner, cm, cancelled>>
                                 ELSE \/ OpenInvalid(d) \/ OpenForCustomWork(d, p)
                                      \/ OpenWithTemplate(d, "ext", p)
      BY <1>6, Zenon DEF HandleOpenExtendedMiningChannel
    <2> QED BY <1>1, <1>2, <1>3, <1>4, <2>1, Zenon
  <1> QED BY <1>5, <1>6, Zenon

\* A channel is closed.
LEMMA DnClose ==
    ASSUME StoreInv, NEW d \in Miners, HandleCloseChannel(d)
    PROVE  DnInv' /\ Closed(d)
  <1>0. DnInv /\ Sound(dn[d]) BY Zenon DEF StoreInv, DnInv
  <1>1. PICK c \in DOMAIN dn[d].chans : /\ dn' = [dn EXCEPT ![d] = WithoutChannel(dn[d], c)]
                                        /\ vardiff' = vardiff \ {<<d, c>>}
    BY Zenon DEF HandleCloseChannel
  <1>2. c \in ChannelIds BY <1>0, <1>1, ChannelsOfSound, Zenon
  <1>3. /\ Sound(WithoutChannel(dn[d], c))
        /\ DOMAIN WithoutChannel(dn[d], c).chans = DOMAIN dn[d].chans \ {c}
    BY <1>0, <1>1, WithoutChannelKeeps, Zenon
  <1>4. DnInv' /\ dn'[d] = WithoutChannel(dn[d], c) /\ \A e \in Miners : e # d => dn'[e] = dn[e]
    BY <1>0, <1>1, <1>3, OneRecord, Zenon
  <1> QED BY <1>1, <1>2, <1>3, <1>4, Zenon DEF Closed

\* A channel takes the target it asked for.
LEMMA DnUpdate ==
    ASSUME StoreInv, NEW d \in Miners, HandleUpdateChannel(d)
    PROVE  DnInv' /\ Kept
  <1>0. DnInv /\ Sound(dn[d]) BY Zenon DEF StoreInv, DnInv
  <1>1. PICK c \in DOMAIN dn[d].chans, x \in Targets : dn' = [dn EXCEPT ![d].chans[c].target = x]
    BY Zenon DEF HandleUpdateChannel
  <1> DEFINE ch == [dn[d].chans[c] EXCEPT !.target = x]
             s == Rechannel(dn[d], [dn[d].chans EXCEPT ![c] = ch])
  <1>2. dn' = [dn EXCEPT ![d] = s] BY <1>1, Zenon DEF Rechannel
  <1>3. dn[d].chans[c] \in Channels /\ PaidBy(dn[d].chans[c].jobs, dn[d].payout)
    BY <1>0, ChannelsOfSound, Zenon
  <1>4. ch \in Channels /\ ch.jobs = dn[d].chans[c].jobs BY <1>3, NoJobsFacts, ChannelTakes, Zenon
  <1> HIDE DEF ch
  <1>5. Sound(s) /\ DOMAIN s.chans = DOMAIN dn[d].chans BY <1>0, <1>3, <1>4, OneChannel, Zenon
  <1> HIDE DEF s
  <1> QED BY <1>0, <1>2, <1>5, OneRecord, Zenon

\* The custom job reaches its channel.
LEMMA DnCommit ==
    ASSUME StoreInv, CommitCustomJob
    PROVE  DnInv' /\ Kept
  <1>0. DnInv BY Zenon DEF StoreInv
  <1>1. CASE UNCHANGED dn BY <1>0, <1>1, NoRecord, Zenon
  <1>2. CASE ~UNCHANGED dn
    <2> DEFINE d == cm.d
               c == cm.ch
               js == AddJob(dn[d].chans[c].jobs, CustomJob, FALSE)
               ch == [dn[d].chans[c] EXCEPT !.jobs = js]
               s == Rechannel(dn[d], [dn[d].chans EXCEPT ![c] = ch])
    <2>1. /\ d \in downstreams /\ c \in DOMAIN dn[d].chans
          /\ dn' = [dn EXCEPT ![cm.d].chans[cm.ch].jobs = AddJob(@, CustomJob, FALSE)]
      BY <1>2, Zenon DEF CommitCustomJob
    <2>2. dn' = [dn EXCEPT ![d] = s] BY <2>1, Zenon DEF Rechannel
    <2>3. d \in Miners /\ Sound(dn[d]) BY <1>0, <2>1, Zenon DEF StoreInv, Shape, DnInv
    <2> HIDE DEF d, c
    <2>4. /\ dn[d].chans[c] \in Channels /\ dn[d].chans[c].jobs \in JobSets
          /\ PaidBy(dn[d].chans[c].jobs, dn[d].payout)
      BY <2>1, <2>3, ChannelsOfSound, Zenon
    <2>5. js \in JobSets /\ PaidBy(js, dn[d].payout) BY <2>4, AddCustomKeeps, Zenon
    <2> HIDE DEF js
    <2>6. ch \in Channels /\ ch.jobs = js BY <2>4, <2>5, Zenon DEF Channels
    <2> HIDE DEF ch
    <2>7. Sound(s) /\ DOMAIN s.chans = DOMAIN dn[d].chans BY <2>1, <2>3, <2>5, <2>6, OneChannel, Zenon
    <2> HIDE DEF s
    <2> QED BY <1>0, <2>2, <2>3, <2>7, OneRecord, Zenon
  <1> QED BY <1>1, <1>2, Zenon

\* The vardiff loop gives some channels a new target.
LEMMA DnVardiff ==
    ASSUME StoreInv, RunVardiff
    PROVE  DnInv' /\ Kept /\ vardiff' = {k \in vardiff : k[1] \in downstreams}
  <1> DEFINE live == {k \in vardiff : k[1] \in downstreams /\ k[2] \in DOMAIN dn[k[1]].chans}
             At(changed, ts, d, c) == IF <<d, c>> \in changed
                                        THEN WithTarget(dn[d].chans[c], ts[<<d, c>>]) ELSE dn[d].chans[c]
             Map(changed, ts, d) == [c \in DOMAIN dn[d].chans |-> At(changed, ts, d, c)]
  <1>1. PICK changed \in SUBSET live : \E ts \in [changed -> Targets] :
             dn' = [d \in Miners |-> Rechannel(dn[d], Map(changed, ts, d))]
    BY Zenon DEF RunVardiff, Rechannel
  <1>2. PICK ts \in [changed -> Targets] : dn' = [d \in Miners |-> Rechannel(dn[d], Map(changed, ts, d))]
    BY <1>1, Zenon
  <1>3. ASSUME NEW d \in Miners
        PROVE  Sound(dn'[d]) /\ DOMAIN dn'[d].chans = DOMAIN dn[d].chans
    <2> DEFINE m == Map(changed, ts, d)
    <2>0. Sound(dn[d]) BY Zenon DEF StoreInv, DnInv
    <2>1. ASSUME NEW c \in DOMAIN dn[d].chans
          PROVE  m[c] \in Channels /\ PaidBy(m[c].jobs, dn[d].payout)
      <3>1. m[c] = At(changed, ts, d, c) BY Zenon
      <3>2. dn[d].chans[c] \in Channels /\ PaidBy(dn[d].chans[c].jobs, dn[d].payout)
        BY <2>0, <2>1, ChannelsOfSound, Zenon
      <3>3. CASE <<d, c>> \in changed
        <4>1. ts[<<d, c>>] \in Targets BY <3>3, Zenon
        <4>2. m[c] = [dn[d].chans[c] EXCEPT !.target = ts[<<d, c>>]] BY <3>1, <3>3, Zenon DEF WithTarget
        <4> HIDE DEF m
        <4>3. m[c] \in Channels /\ m[c].jobs = dn[d].chans[c].jobs
          BY <3>2, <4>1, <4>2, Zenon DEF Channels
        <4> QED BY <3>2, <4>3, Zenon
      <3>4. CASE <<d, c>> \notin changed BY <3>1, <3>2, <3>4, Zenon
      <3> QED BY <3>3, <3>4, Zenon
    <2>2. m \in [DOMAIN dn[d].chans -> Channels] BY <2>1, Zenon
    <2>3. dn'[d] = Rechannel(dn[d], m) BY <1>2, Zenon
    <2>4. \A c \in DOMAIN dn[d].chans : PaidBy(m[c].jobs, dn[d].payout) BY <2>1, Zenon
    <2> HIDE DEF m
    <2>5. Sound(Rechannel(dn[d], m)) /\ DOMAIN Rechannel(dn[d], m).chans = DOMAIN dn[d].chans
      BY <2>0, <2>2, <2>4, NoJobsFacts, SameChannels
    <2> QED BY <2>3, <2>5, Zenon
  <1>4. dn' \in [Miners -> Downstreams]
    <2>1. \A d \in Miners : dn'[d] \in Downstreams BY <1>3, Zenon DEF Sound
    <2> QED BY <1>2, <2>1, Zenon
  <1>5. DnInv' BY <1>3, <1>4, Zenon DEF DnInv, Sound
  <1>6. vardiff' = {k \in vardiff : k[1] \in downstreams} BY Zenon DEF RunVardiff
  <1> QED BY <1>3, <1>5, <1>6, Zenon DEF Kept

----------------------------------------------------------------------------
(* Connection tasks.                                                         *)

Seen == [template : 0..MaxTemplate, prevHash : 0..MaxTemplate]

\* One connection goes on: what its record, its reads and its flags must be.
LEMMA Moved ==
    ASSUME StoreInv, NEW d \in Miners, NEW pc \in Connections, conn' = [conn EXCEPT ![d] = pc],
           UNCHANGED <<tp, lastFuture, lastPrevHash, cm>>,
           DnInv', \A e \in Miners \ {d} : DOMAIN dn'[e].chans = DOMAIN dn[e].chans,
           downstreams' \in SUBSET Miners, senders' \in SUBSET Miners,
           vardiff' \in SUBSET (Miners \X ChannelIds), cancelled' \in BOOLEAN,
           seen' \in [Miners -> Seen], \A e \in Miners \ {d} : seen'[e] = seen[e],
           spoken' \in {spoken, spoken \cup {d}},
           lastFuture # 0 /\ lastPrevHash # 0,
           pc \in {"read", "bootstrap"} => seen'[d].template # 0,
           pc \in Early => d \notin spoken' /\ DOMAIN dn'[d].chans = {}
    PROVE  StoreInv'
  <1>1. Shape'
    <2>1. conn' \in [Miners -> Connections] BY Zenon DEF StoreInv, Shape
    <2>2. spoken' \in SUBSET Miners BY Zenon DEF StoreInv, Shape
    <2> QED BY <2>1, <2>2, Zenon DEF StoreInv, Shape, Seen
  <1>2. CmInv' BY Zenon DEF StoreInv, CmInv
  <1>3. ConnInv'
    <2>1. conn'[d] = pc /\ \A e \in Miners \ {d} : conn'[e] = conn[e] BY Zenon DEF StoreInv, Shape
    <2>2. ASSUME NEW e \in Miners
          PROVE  /\ conn'[e] # "absent" => lastFuture' # 0 /\ lastPrevHash' # 0
                 /\ conn'[e] \in {"read", "bootstrap"} => seen'[e].template # 0
                 /\ conn'[e] \in Early => e \notin spoken' /\ DOMAIN dn'[e].chans = {}
      <3>1. CASE e = d BY <2>1, <3>1, Zenon
      <3>2. CASE e # d
        <4>1. e \in Miners \ {d} BY <3>2, Zenon
        <4>2. e \in spoken' => e \in spoken BY <3>2, Zenon
        <4>3. /\ conn[e] \in {"read", "bootstrap"} => seen[e].template # 0
              /\ conn[e] \in Early => e \notin spoken /\ DOMAIN dn[e].chans = {}
          BY Zenon DEF StoreInv, ConnInv
        <4>4. conn'[e] = conn[e] /\ seen'[e] = seen[e] /\ DOMAIN dn'[e].chans = DOMAIN dn[e].chans
          BY <2>1, <4>1, Zenon
        <4>5. lastFuture' # 0 /\ lastPrevHash' # 0 BY Zenon
        <4> QED BY <4>2, <4>3, <4>4, <4>5, Zenon
      <3> QED BY <3>1, <3>2, Zenon
    <2> QED BY <2>2, Zenon DEF ConnInv
  <1> QED BY <1>1, <1>2, <1>3, Zenon DEF StoreInv

\* A connection that is not being removed goes on: the registers follow.
LEMMA RegMoved ==
    ASSUME PoolInv, StoreInv', NEW d \in Miners, NEW pc \in Connections, conn' = [conn EXCEPT ![d] = pc],
           UNCHANGED <<cm, vardiff>>, Kept, conn[d] # "removing2",
           \/ downstreams' = downstreams /\ conn[d] # "sender"
           \/ downstreams' = downstreams \cup {d} /\ conn[d] = "sender",
           senders' \in {senders, senders \cup {d}}, pc = "sender" => d \in senders',
           d \in downstreams' => pc \in {"setup", "running", "closing"}
    PROVE  RegInv' /\ CustomJobFindsChannel'
  <1>0. StoreInv /\ RegInv /\ CustomJobFindsChannel BY Zenon DEF PoolInv
  <1>1. conn'[d] = pc /\ \A e \in Miners : e # d => conn'[e] = conn[e] BY <1>0, Zenon DEF StoreInv, Shape
  <1>2. conn[d] = "sender" => /\ d \notin spoken /\ DOMAIN dn[d].chans = {}
                              /\ cm.op # "stopped" => d \in senders
    BY <1>0, Zenon DEF StoreInv, ConnInv, Early, RegInv
  <1>3. /\ cm.op \in {"remove", "custom"} => cm.d \in spoken
        /\ downstreams \in SUBSET Miners /\ downstreams' \in SUBSET Miners
    BY <1>0, Zenon DEF StoreInv, CmInv, Shape
  <1>4. \A e \in downstreams' : e \in downstreams \/ (e = d /\ conn[d] = "sender") BY Zenon
  <1>5. downstreams \subseteq downstreams' /\ senders \subseteq senders' BY Zenon
  <1>6. \A e \in downstreams' : conn'[e] \in {"setup", "running", "closing"}
    <2>1. \A e \in downstreams : conn[e] \in {"setup", "running", "closing"} BY <1>0, Zenon DEF RegInv
    <2> QED BY <1>1, <1>3, <1>4, <2>1, Zenon
  <1>7. \A e \in Miners : conn'[e] = "sender" /\ cm'.op # "stopped" => e \in senders'
    BY <1>0, <1>1, <1>5, Zenon DEF RegInv
  <1>8. cm'.op = "remove" /\ cm'.step # 1 => cm'.d \notin downstreams'
    BY <1>0, <1>2, <1>3, <1>4, Zenon DEF RegInv
  <1>9. RegisteredHaveSender'
    BY <1>0, <1>2, <1>4, <1>5, Zenon DEF RegInv, RegisteredHaveSender
  <1>10. VardiffMatchesChannels'
    <2>1. \A e \in downstreams' : \A c \in DOMAIN dn'[e].chans : <<e, c>> \in vardiff'
      BY <1>0, <1>2, <1>3, <1>4, Zenon DEF RegInv, VardiffMatchesChannels, Kept
    <2>2. ASSUME NEW k \in vardiff'
          PROVE  (k[1] \in downstreams' /\ k[2] \in DOMAIN dn'[k[1]].chans) \/ Removing(k[1])'
      <3>1. (k[1] \in downstreams /\ k[2] \in DOMAIN dn[k[1]].chans) \/ Removing(k[1])
        BY <1>0, <2>2, Zenon DEF RegInv, VardiffMatchesChannels
      <3>2. CASE k[1] \in downstreams /\ k[2] \in DOMAIN dn[k[1]].chans
        BY <1>3, <1>5, <3>2, Zenon DEF Kept
      <3>3. CASE Removing(k[1])
        <4>1. k[1] \in Miners
          <5>1. vardiff \in SUBSET (Miners \X ChannelIds) /\ k \in vardiff BY <1>0, <2>2, Zenon DEF StoreInv, Shape
          <5> QED BY <5>1
        <4>2. conn[k[1]] = "removing2" => conn'[k[1]] = "removing2" BY <1>1, <4>1, Zenon
        <4> QED BY <3>3, <4>2, Zenon DEF Removing
      <3> QED BY <3>1, <3>2, <3>3, Zenon
    <2> QED BY <2>1, <2>2, Zenon DEF VardiffMatchesChannels
  <1>11. CustomJobFindsChannel'
    <2>1. CASE cm.op = "custom" /\ cm.d \in downstreams'
      <3>1. cm.d \in downstreams /\ cm.d \in Miners BY <1>2, <1>3, <1>4, <2>1, Zenon
      <3> QED BY <1>0, <2>1, <3>1, Zenon DEF CustomJobFindsChannel, Kept
    <2> QED BY <2>1, Zenon DEF CustomJobFindsChannel
  <1> QED BY <1>6, <1>7, <1>8, <1>9, <1>10, <1>11, Zenon DEF RegInv

\* A step of a connection that is not being removed.
LEMMA GoesOn ==
    ASSUME PoolInv, NEW d \in Miners, NEW pc \in Connections, conn' = [conn EXCEPT ![d] = pc],
           UNCHANGED <<tp, lastFuture, lastPrevHash, cm, vardiff, solved>>, DnInv', Kept, conn[d] # "removing2",
           conn[d] = "absent" => lastFuture # 0 /\ lastPrevHash # 0,
           \/ downstreams' = downstreams /\ conn[d] # "sender"
           \/ downstreams' = downstreams \cup {d} /\ conn[d] = "sender",
           senders' \in {senders, senders \cup {d}}, pc = "sender" => d \in senders',
           conn[d] \in {"sender", "setup", "running"} => pc \in {"setup", "running", "closing"},
           conn[d] # "closing", cancelled' \in BOOLEAN,
           seen' \in [Miners -> Seen], \A e \in Miners \ {d} : seen'[e] = seen[e],
           spoken' \in {spoken, spoken \cup {d}},
           pc \in {"read", "bootstrap"} => seen'[d].template # 0,
           pc \in Early => conn[d] \in Early /\ spoken' = spoken
    PROVE  PoolInv'
  <1>0. StoreInv /\ RegInv /\ BlocksPayPolicy /\ Shape /\ ConnInv BY Zenon DEF PoolInv, StoreInv
  <1>1. lastFuture # 0 /\ lastPrevHash # 0 BY <1>0, Zenon DEF ConnInv
  <1>2. /\ downstreams \in SUBSET Miners /\ senders \in SUBSET Miners
        /\ vardiff' \in SUBSET (Miners \X ChannelIds)
    BY <1>0, Zenon DEF Shape
  <1>3. downstreams' \in SUBSET Miners /\ senders' \in SUBSET Miners BY <1>2, Zenon
  <1>4. pc \in Early => d \notin spoken' /\ DOMAIN dn'[d].chans = {}
    BY <1>0, Zenon DEF ConnInv, Kept
  <1>5. \A e \in Miners \ {d} : DOMAIN dn'[e].chans = DOMAIN dn[e].chans BY Zenon DEF Kept
  <1>6. StoreInv' BY <1>0, <1>1, <1>2, <1>3, <1>4, <1>5, Moved, ZenonT(30)
  <1>7. d \in downstreams' => pc \in {"setup", "running", "closing"}
    <2>1. d \in downstreams => conn[d] \in {"setup", "running", "closing"} BY <1>0, Zenon DEF RegInv
    <2> QED BY <2>1, Zenon
  <1>8. RegInv' /\ CustomJobFindsChannel' BY <1>6, <1>7, RegMoved, ZenonT(30)
  <1>9. BlocksPayPolicy' BY <1>0, Zenon DEF BlocksPayPolicy
  <1> QED BY <1>6, <1>8, <1>9, Zenon DEF PoolInv

\* The reads of a connection's template and previous hash.
LEMMA ReadsKeep ==
    ASSUME PoolInv, NEW d \in Miners, Accept(d) \/ ReadPrevHash(d)
    PROVE  PoolInv'
  <1>0. StoreInv /\ Shape /\ DnInv /\ ConnInv BY Zenon DEF PoolInv, StoreInv
  <1>1. /\ UNCHANGED <<tp, lastFuture, lastPrevHash, downstreams, senders, vardiff, spoken, cm, solved, cancelled, dn>>
    BY Zenon DEF Accept, ReadPrevHash, ConnUnchanged, poolState, maps
  <1>2. DnInv' /\ Kept BY <1>0, <1>1, NoRecord, Zenon
  <1>3. cancelled' \in BOOLEAN BY <1>0, <1>1, Zenon DEF Shape
  <1>4. seen \in [Miners -> Seen] /\ lastFuture \in 0..MaxTemplate /\ lastPrevHash \in 0..MaxTemplate
    BY <1>0, Zenon DEF Shape, Seen
  <1>5. CASE Accept(d)
    <2>1. /\ conn[d] = "absent" /\ lastFuture # 0 /\ lastPrevHash # 0 /\ conn' = [conn EXCEPT ![d] = "read"]
          /\ seen' = [seen EXCEPT ![d] = [seen[d] EXCEPT !.template = lastFuture]]
      BY <1>5, Zenon DEF Accept, Goto
    <2> DEFINE s == [seen[d] EXCEPT !.template = lastFuture]
    <2>2. s \in Seen /\ s.template # 0 BY <1>4, <2>1, Zenon DEF Seen
    <2> HIDE DEF s
    <2>3. /\ seen' \in [Miners -> Seen] /\ \A e \in Miners \ {d} : seen'[e] = seen[e]
          /\ seen'[d].template # 0
      BY <1>4, <2>1, <2>2, Zenon DEF s
    <2>4. "read" \in Connections /\ conn[d] \in Early BY <2>1, Zenon DEF Connections, Early
    <2> QED BY <1>1, <1>2, <1>3, <2>1, <2>3, <2>4, GoesOn, ZenonT(30)
  <1>6. CASE ReadPrevHash(d)
    <2>1. /\ conn[d] = "read" /\ conn' = [conn EXCEPT ![d] = "bootstrap"]
          /\ seen' = [seen EXCEPT ![d] = [seen[d] EXCEPT !.prevHash = lastPrevHash]]
      BY <1>6, Zenon DEF ReadPrevHash, Goto
    <2> DEFINE s == [seen[d] EXCEPT !.prevHash = lastPrevHash]
    <2>2. seen[d].template # 0 BY <1>0, <2>1, Zenon DEF ConnInv
    <2>3. s \in Seen /\ s.template # 0 BY <1>4, <2>2, Zenon DEF Seen
    <2> HIDE DEF s
    <2>4. /\ seen' \in [Miners -> Seen] /\ \A e \in Miners \ {d} : seen'[e] = seen[e]
          /\ seen'[d].template # 0
      BY <1>4, <2>1, <2>3, Zenon DEF s
    <2>5. "bootstrap" \in Connections /\ conn[d] \in Early BY <2>1, Zenon DEF Connections, Early
    <2> QED BY <1>1, <1>2, <1>3, <2>1, <2>4, <2>5, GoesOn, ZenonT(30)
  <1> QED BY <1>5, <1>6, Zenon

\* The group channel, the two inserts, the handshake and the end of a connection's loop.
LEMMA ConnectionKeeps ==
    ASSUME PoolInv, NEW d \in Miners,
           \/ BootstrapGroupChannel(d) \/ InsertSender(d) \/ InsertDownstream(d)
           \/ SetupConnection(d) \/ ConnectionEnds(d)
    PROVE  PoolInv'
  <1>0. StoreInv /\ Shape /\ DnInv BY Zenon DEF PoolInv, StoreInv
  <1>1. UNCHANGED <<tp, lastFuture, lastPrevHash, vardiff, cm, solved, seen>>
    BY Zenon DEF BootstrapGroupChannel, InsertSender, InsertDownstream, SetupConnection, ConnectionEnds,
                 ConnUnchanged, poolState, maps
  <1>2. seen' \in [Miners -> Seen] /\ \A e \in Miners \ {d} : seen'[e] = seen[e]
    BY <1>0, <1>1, Zenon DEF Shape, Seen
  <1>3. /\ cancelled \in BOOLEAN /\ TRUE \in BOOLEAN
        /\ {"built", "gone", "sender", "setup", "running", "closing"} \subseteq Connections
        /\ {"bootstrap", "built", "sender", "setup"} \subseteq Early
        /\ "gone" \notin Early /\ "running" \notin Early /\ "closing" \notin Early
    BY <1>0, Zenon DEF Shape, Connections, Early
  <1>4. CASE BootstrapGroupChannel(d)
    <2>1. DnInv' /\ Kept BY <1>0, <1>4, DnBootstrap, Zenon
    <2>2. /\ conn[d] = "bootstrap" /\ UNCHANGED <<downstreams, senders, spoken>>
          /\ \/ conn' = [conn EXCEPT ![d] = "built"] /\ UNCHANGED cancelled
             \/ conn' = [conn EXCEPT ![d] = "gone"] /\ cancelled' = TRUE
      BY <1>4, Zenon DEF BootstrapGroupChannel, Goto, ConnUnchanged, maps
    <2>3. cancelled' \in BOOLEAN BY <1>3, <2>2, Zenon
    <2>4. "built" \in Connections /\ "gone" \in Connections /\ conn[d] \in Early BY <1>3, <2>2, Zenon
    <2>5. CASE conn' = [conn EXCEPT ![d] = "built"]
      BY <1>1, <1>2, <2>1, <2>2, <2>3, <2>4, <2>5, GoesOn, ZenonT(30)
    <2>6. CASE conn' = [conn EXCEPT ![d] = "gone"]
      BY <1>1, <1>2, <1>3, <2>1, <2>2, <2>3, <2>4, <2>6, GoesOn, ZenonT(30)
    <2> QED BY <2>2, <2>5, <2>6, Zenon
  <1>5. CASE InsertSender(d)
    <2>1. /\ conn[d] = "built" /\ UNCHANGED <<downstreams, spoken, dn, cancelled>> /\ senders' = senders \cup {d}
          /\ conn' = [conn EXCEPT ![d] = "sender"]
      BY <1>5, Zenon DEF InsertSender, Goto, ConnUnchanged
    <2>2. DnInv' /\ Kept BY <1>0, <2>1, NoRecord, Zenon
    <2>3. cancelled' \in BOOLEAN /\ "sender" \in Connections /\ conn[d] \in Early /\ d \in senders'
      BY <1>3, <2>1, Zenon
    <2> QED BY <1>1, <1>2, <2>1, <2>2, <2>3, GoesOn, ZenonT(30)
  <1>6. CASE InsertDownstream(d)
    <2>1. /\ conn[d] = "sender" /\ UNCHANGED <<senders, spoken, dn, cancelled>>
          /\ downstreams' = downstreams \cup {d} /\ conn' = [conn EXCEPT ![d] = "setup"]
      BY <1>6, Zenon DEF InsertDownstream, Goto, ConnUnchanged
    <2>2. DnInv' /\ Kept BY <1>0, <2>1, NoRecord, Zenon
    <2>3. cancelled' \in BOOLEAN /\ "setup" \in Connections /\ conn[d] \in Early BY <1>3, <2>1, Zenon
    <2> QED BY <1>1, <1>2, <2>1, <2>2, <2>3, GoesOn, ZenonT(30)
  <1>7. CASE SetupConnection(d)
    <2>1. DnInv' /\ Kept BY <1>0, <1>7, DnSetup, Zenon
    <2>2. /\ conn[d] = "setup" /\ UNCHANGED <<downstreams, senders, cancelled>>
          /\ \/ conn' = [conn EXCEPT ![d] = "running"] /\ spoken' = spoken \cup {d}
             \/ conn' = [conn EXCEPT ![d] = "closing"] /\ UNCHANGED spoken
      BY <1>7, Zenon DEF SetupConnection, SetupRefused, Goto, maps
    <2>3. cancelled' \in BOOLEAN /\ "running" \in Connections /\ "closing" \in Connections BY <1>3, <2>2, Zenon
    <2>4. CASE conn' = [conn EXCEPT ![d] = "running"] /\ spoken' = spoken \cup {d}
      BY <1>1, <1>2, <1>3, <2>1, <2>2, <2>3, <2>4, GoesOn, ZenonT(30)
    <2>5. CASE conn' = [conn EXCEPT ![d] = "closing"] /\ UNCHANGED spoken
      BY <1>1, <1>2, <1>3, <2>1, <2>2, <2>3, <2>5, GoesOn, ZenonT(30)
    <2> QED BY <2>2, <2>4, <2>5, Zenon
  <1>8. CASE ConnectionEnds(d)
    <2>1. /\ conn[d] = "running" /\ UNCHANGED <<downstreams, senders, spoken, dn, cancelled>>
          /\ conn' = [conn EXCEPT ![d] = "closing"]
      BY <1>8, Zenon DEF ConnectionEnds, Goto, ConnUnchanged, maps
    <2>2. DnInv' /\ Kept BY <1>0, <2>1, NoRecord, Zenon
    <2>3. cancelled' \in BOOLEAN /\ "closing" \in Connections BY <1>3, <2>1, Zenon
    <2> QED BY <1>1, <1>2, <1>3, <2>1, <2>2, <2>3, GoesOn, ZenonT(30)
  <1> QED BY <1>4, <1>5, <1>6, <1>7, <1>8, Zenon

\* A connection that ended takes itself off the three maps.
LEMMA DisconnectKeeps ==
    ASSUME PoolInv, NEW d \in Miners, OnDisconnect(d)
    PROVE  PoolInv'
  <1> DEFINE pc == ClosingNext[ClosingStep[conn[d]]]
             Of(k) == k[1] = d
  <1>0. StoreInv /\ RegInv /\ CustomJobFindsChannel /\ BlocksPayPolicy /\ Shape /\ DnInv /\ ConnInv
    BY Zenon DEF PoolInv, StoreInv
  <1>1. /\ UNCHANGED <<tp, lastFuture, lastPrevHash, spoken, cm, miner, solved, seen, cancelled>>
        /\ conn' = [conn EXCEPT ![d] = pc]
        /\ dn' = IF conn[d] = "removing3" THEN [dn EXCEPT ![d] = NewDownstream] ELSE dn
    BY Zenon DEF OnDisconnect, Goto, ConnUnchanged, poolState
  <1>2. \/ /\ conn[d] = "closing" /\ pc = "removing2" /\ downstreams' = downstreams \ {d}
           /\ UNCHANGED <<vardiff, senders>>
        \/ /\ conn[d] = "removing2" /\ pc = "removing3" /\ vardiff' = {k \in vardiff : ~Of(k)}
           /\ UNCHANGED <<downstreams, senders>>
        \/ /\ conn[d] = "removing3" /\ pc = "gone" /\ senders' = senders \ {d}
           /\ UNCHANGED <<downstreams, vardiff>>
    BY DEF OnDisconnect, RemoveStep, ClosingStep, ClosingNext
  <1> HIDE DEF pc
  <1>3. /\ pc \in Connections /\ pc \notin Early /\ pc \notin {"setup", "running", "closing", "sender"}
        /\ conn[d] # "absent"
    BY <1>2, Zenon DEF Connections, Early
  <1>4. conn'[d] = pc /\ \A e \in Miners : e # d => conn'[e] = conn[e] BY <1>0, <1>1, Zenon DEF Shape
  <1>5. DnInv' /\ \A e \in Miners : e # d => dn'[e] = dn[e]
    <2>1. CASE conn[d] = "removing3"
      <3>1. dn' = [dn EXCEPT ![d] = NewDownstream] BY <1>1, <2>1, Zenon
      <3> QED BY <1>0, <3>1, NewDownstreamSound, OneRecord, Zenon
    <2>2. CASE conn[d] # "removing3"
      <3>1. UNCHANGED dn BY <1>1, <2>2, Zenon
      <3> QED BY <1>0, <3>1, NoRecord, Zenon
    <2> QED BY <2>1, <2>2, Zenon
  <1>6. /\ downstreams \in SUBSET Miners /\ senders \in SUBSET Miners
        /\ vardiff \in SUBSET (Miners \X ChannelIds)
        /\ d \in downstreams => conn[d] \in {"setup", "running", "closing"}
    BY <1>0, Zenon DEF Shape, RegInv
  <1>7. downstreams' = downstreams \ {d} BY <1>2, <1>6, Zenon
  <1>8. /\ senders' \in SUBSET Miners /\ \A e \in senders : e # d => e \in senders'
        /\ vardiff' \subseteq vardiff
        /\ \A k \in vardiff : ~Of(k) => k \in vardiff'
        /\ \A k \in vardiff' : Of(k) => pc \in {"removing2", "gone"}
    BY <1>2, <1>6, Zenon
  <1>9. StoreInv'
    <2>1. lastFuture # 0 /\ lastPrevHash # 0 BY <1>0, <1>3, Zenon DEF ConnInv
    <2>2. downstreams' \in SUBSET Miners /\ vardiff' \in SUBSET (Miners \X ChannelIds) BY <1>6, <1>7, <1>8, Zenon
    <2>3. seen' \in [Miners -> Seen] /\ \A e \in Miners \ {d} : seen'[e] = seen[e]
      BY <1>0, <1>1, Zenon DEF Shape, Seen
    <2>4. cancelled' \in BOOLEAN /\ spoken' \in {spoken, spoken \cup {d}} BY <1>0, <1>1, Zenon DEF Shape
    <2>5. pc \notin {"read", "bootstrap"} BY <1>3, Zenon DEF Early
    <2>6. \A e \in Miners \ {d} : DOMAIN dn'[e].chans = DOMAIN dn[e].chans BY <1>5, Zenon
    <2> QED BY <1>0, <1>1, <1>3, <1>5, <1>8, <2>1, <2>2, <2>3, <2>4, <2>5, <2>6, Moved, ZenonT(30)
  <1>10. \A e \in downstreams' : e \in Miners /\ e \in downstreams /\ e # d /\ conn'[e] = conn[e] /\ dn'[e] = dn[e]
    BY <1>4, <1>5, <1>6, <1>7, Zenon
  <1>11. \A e \in downstreams' : conn'[e] \in {"setup", "running", "closing"}
    BY <1>0, <1>10, Zenon DEF RegInv
  <1>12. \A e \in Miners : conn'[e] = "sender" /\ cm'.op # "stopped" => e \in senders'
    BY <1>0, <1>1, <1>3, <1>4, <1>8, Zenon DEF RegInv
  <1>13. cm'.op = "remove" /\ cm'.step # 1 => cm'.d \notin downstreams' BY <1>0, <1>1, <1>10, Zenon DEF RegInv
  <1>14. RegisteredHaveSender' BY <1>0, <1>1, <1>8, <1>10, Zenon DEF RegInv, RegisteredHaveSender
  <1>15. VardiffMatchesChannels'
    <2>1. ASSUME NEW e \in downstreams', NEW c \in DOMAIN dn'[e].chans PROVE <<e, c>> \in vardiff'
      <3>1. <<e, c>> \in vardiff BY <1>0, <1>10, Zenon DEF RegInv, VardiffMatchesChannels
      <3>2. ~Of(<<e, c>>) BY <1>10
      <3> QED BY <1>8, <3>1, <3>2, Zenon
    <2>2. ASSUME NEW k \in vardiff'
          PROVE  (k[1] \in downstreams' /\ k[2] \in DOMAIN dn'[k[1]].chans) \/ Removing(k[1])'
      <3>1. k[1] \in Miners /\ k \in vardiff
        <4>1. k \in vardiff /\ k \in Miners \X ChannelIds BY <1>6, <1>8, Zenon
        <4> QED BY <4>1
      <3>2. (k[1] \in downstreams /\ k[2] \in DOMAIN dn[k[1]].chans) \/ Removing(k[1])
        BY <1>0, <3>1, Zenon DEF RegInv, VardiffMatchesChannels
      <3>3. CASE Of(k)
        <4>1. CASE pc = "removing2" BY <1>4, <3>3, <4>1, Zenon DEF Removing
        <4>2. CASE pc = "gone"
          <5>1. conn[d] = "removing3" BY <1>2, <4>2, Zenon
          <5>2. d \notin downstreams BY <1>6, <5>1, Zenon
          <5>3. cm.op = "remove" /\ cm.d = k[1] /\ cm.step = 2 BY <3>2, <3>3, <5>1, <5>2, Zenon DEF Removing
          <5> QED BY <1>1, <5>3, Zenon DEF Removing
        <4> QED BY <1>8, <3>3, <4>1, <4>2, Zenon
      <3>4. CASE ~Of(k)
        <4>1. conn'[k[1]] = conn[k[1]] /\ dn'[k[1]] = dn[k[1]] BY <1>4, <1>5, <3>1, <3>4, Zenon
        <4>2. k[1] \in downstreams => k[1] \in downstreams' BY <1>7, <3>4, Zenon
        <4> QED BY <1>1, <3>2, <4>1, <4>2, Zenon DEF Removing
      <3> QED BY <3>3, <3>4, Zenon
    <2> QED BY <2>1, <2>2, Zenon DEF VardiffMatchesChannels
  <1>16. CustomJobFindsChannel' BY <1>0, <1>1, <1>10, Zenon DEF CustomJobFindsChannel
  <1>17. BlocksPayPolicy' BY <1>0, <1>1, Zenon DEF BlocksPayPolicy
  <1> QED BY <1>0, <1>9, <1>11, <1>12, <1>13, <1>14, <1>15, <1>16, <1>17, Zenon DEF PoolInv, RegInv

----------------------------------------------------------------------------
(* The channel manager.                                                      *)

\* A step of the channel manager leaves the connections' tasks alone.
CmStep ==
    /\ UNCHANGED <<conn, seen, spoken>>
    /\ tp' \in [sent : 0..MaxTemplate, pending : 0..MaxTemplate]
    /\ lastFuture' \in 0..MaxTemplate /\ lastPrevHash' \in 0..MaxTemplate
    /\ lastFuture # 0 => lastFuture' # 0
    /\ lastPrevHash # 0 => lastPrevHash' # 0
    /\ cancelled' \in BOOLEAN

\* What it stores keeps its shape when the records and its own state do.
LEMMA CmStored ==
    ASSUME StoreInv, CmStep, DnInv', CmInv',
           \A d \in Miners : d \notin spoken => DOMAIN dn'[d].chans = DOMAIN dn[d].chans,
           downstreams' \subseteq downstreams, senders' \subseteq senders,
           vardiff' \in SUBSET (Miners \X ChannelIds)
    PROVE  StoreInv'
  <1>1. Shape'
    <2>1. downstreams' \in SUBSET Miners /\ senders' \in SUBSET Miners BY Zenon DEF StoreInv, Shape
    <2> QED BY <2>1, Zenon DEF StoreInv, Shape, CmStep
  <1>2. ConnInv' BY Zenon DEF StoreInv, ConnInv, CmStep
  <1> QED BY <1>1, <1>2, Zenon DEF StoreInv

\* `vardiff` follows the channels a handler opens, closes or keeps.
LEMMA VardiffFollows ==
    ASSUME PoolInv, UNCHANGED <<downstreams, conn>>, cm.op # "remove", NEW d,
           \/ Kept /\ vardiff' \in {vardiff, {k \in vardiff : k[1] \in downstreams}}
           \/ d \in downstreams /\ (Opened(d) \/ Closed(d))
    PROVE  VardiffMatchesChannels'
  <1>0. Shape /\ VardiffMatchesChannels BY Zenon DEF PoolInv, StoreInv, RegInv
  <1>1. downstreams \in SUBSET Miners /\ vardiff \in SUBSET (Miners \X ChannelIds) BY <1>0, Zenon DEF Shape
  <1>2. \A k \in vardiff : \/ k[1] \in downstreams /\ k[2] \in DOMAIN dn[k[1]].chans
                           \/ conn[k[1]] = "removing2"
    BY <1>0, Zenon DEF VardiffMatchesChannels, Removing
  <1>3. \A e \in downstreams : \A c \in DOMAIN dn[e].chans : <<e, c>> \in vardiff
    BY <1>0, Zenon DEF VardiffMatchesChannels
  <1>4. SUFFICES /\ \A e \in downstreams : \A c \in DOMAIN dn'[e].chans : <<e, c>> \in vardiff'
                 /\ \A k \in vardiff' : \/ k[1] \in downstreams /\ k[2] \in DOMAIN dn'[k[1]].chans
                                        \/ conn[k[1]] = "removing2"
    BY Zenon DEF VardiffMatchesChannels, Removing
  <1>5. CASE Kept /\ vardiff' \in {vardiff, {k \in vardiff : k[1] \in downstreams}}
    <2>1. \A e \in downstreams : DOMAIN dn'[e].chans = DOMAIN dn[e].chans BY <1>1, <1>5, Zenon DEF Kept
    <2>2. \A e \in downstreams : \A c : <<e, c>> \in vardiff => <<e, c>> \in vardiff' BY <1>5
    <2>3. vardiff' \subseteq vardiff BY <1>5, Zenon
    <2> QED BY <1>2, <1>3, <2>1, <2>2, <2>3, Zenon
  <1>6. CASE d \in downstreams /\ Opened(d)
    <2>1. PICK c \in ChannelIds : /\ DOMAIN dn'[d].chans = DOMAIN dn[d].chans \cup {c}
                                  /\ vardiff' = vardiff \cup {<<d, c>>}
                                  /\ \A e \in Miners : e # d => dn'[e] = dn[e]
      BY <1>6, Zenon DEF Opened
    <2>2. \A e \in downstreams : e # d => dn'[e] = dn[e] BY <1>1, <2>1, Zenon
    <2>3. \A e \in downstreams : \A b \in DOMAIN dn'[e].chans : <<e, b>> \in vardiff'
      BY <1>3, <2>1, <2>2, Zenon
    <2>4. ASSUME NEW k \in vardiff'
          PROVE  (k[1] \in downstreams /\ k[2] \in DOMAIN dn'[k[1]].chans) \/ conn[k[1]] = "removing2"
      <3>1. CASE k = <<d, c>>
        <4>1. k[1] = d /\ k[2] = c BY <3>1
        <4> QED BY <1>6, <2>1, <4>1, Zenon
      <3>2. CASE k # <<d, c>>
        <4>1. k \in vardiff BY <2>1, <3>2, Zenon
        <4>2. CASE k[1] = d BY <1>2, <2>1, <4>1, <4>2, Zenon
        <4>3. CASE k[1] # d BY <1>2, <2>2, <4>1, <4>3, Zenon
        <4> QED BY <4>2, <4>3, Zenon
      <3> QED BY <3>1, <3>2, Zenon
    <2> QED BY <2>3, <2>4, Zenon
  <1>7. CASE d \in downstreams /\ Closed(d)
    <2>1. PICK c \in ChannelIds : /\ DOMAIN dn'[d].chans = DOMAIN dn[d].chans \ {c}
                                  /\ vardiff' = vardiff \ {<<d, c>>}
                                  /\ \A e \in Miners : e # d => dn'[e] = dn[e]
      BY <1>7, Zenon DEF Closed
    <2>2. \A e \in downstreams : e # d => dn'[e] = dn[e] BY <1>1, <2>1, Zenon
    <2>3. ASSUME NEW e \in downstreams, NEW b \in DOMAIN dn'[e].chans PROVE <<e, b>> \in vardiff'
      <3>1. b \in DOMAIN dn[e].chans /\ (e = d => b # c) BY <2>1, <2>2, <2>3, Zenon
      <3>2. <<e, b>> # <<d, c>> BY <3>1
      <3> QED BY <1>3, <2>1, <3>1, <3>2, Zenon
    <2>4. ASSUME NEW k \in vardiff'
          PROVE  (k[1] \in downstreams /\ k[2] \in DOMAIN dn'[k[1]].chans) \/ conn[k[1]] = "removing2"
      <3>1. k \in vardiff /\ k # <<d, c>> BY <2>1, Zenon
      <3>2. k[1] = d => k[2] # c
        <4>1. k \in Miners \X ChannelIds BY <1>1, <3>1, Zenon
        <4> QED BY <3>1, <4>1
      <3>3. CASE k[1] = d BY <1>2, <2>1, <3>1, <3>2, <3>3, Zenon
      <3>4. CASE k[1] # d BY <1>2, <2>2, <3>1, <3>4, Zenon
      <3> QED BY <3>3, <3>4, Zenon
    <2> QED BY <2>3, <2>4, Zenon
  <1> QED BY <1>5, <1>6, <1>7, Zenon

\* A handler that neither removes a downstream nor ends the loop.
LEMMA Handled ==
    ASSUME PoolInv, CmStep, DnInv', CmInv', BlocksPayPolicy', VardiffMatchesChannels',
           UNCHANGED <<downstreams, senders>>, vardiff' \in SUBSET (Miners \X ChannelIds),
           cm.op \in {"idle", "walk", "custom"},
           \A d \in Miners : d \notin spoken => DOMAIN dn'[d].chans = DOMAIN dn[d].chans,
           cm'.op = "remove" => cm'.step = 1,
           cm'.op = "custom" => cm'.ch \in DOMAIN dn'[cm'.d].chans
    PROVE  PoolInv'
  <1>0. StoreInv /\ RegInv BY Zenon DEF PoolInv
  <1>1. StoreInv' BY <1>0, CmStored, Zenon
  <1>2. RegisteredHaveSender' BY <1>0, Zenon DEF RegInv, RegisteredHaveSender
  <1>3. RegInv' BY <1>0, <1>2, Zenon DEF RegInv, CmStep
  <1>4. CustomJobFindsChannel' BY Zenon DEF CustomJobFindsChannel
  <1> QED BY <1>1, <1>3, <1>4, Zenon DEF PoolInv

\* What the channel manager does next.
LEMMA NextTask ==
    ASSUME CmInv, UNCHANGED spoken, cm.op \in {"idle", "walk", "custom"},
           \/ UNCHANGED cm /\ cm.op # "custom"
           \/ cm' = Idle \/ cm' = [op |-> "closing"]
           \/ \E d \in spoken : cm' = [op |-> "remove", d |-> d, step |-> 1]
    PROVE  CmInv' /\ (cm'.op = "remove" => cm'.step = 1) /\ cm'.op # "custom"
  <1>1. CASE UNCHANGED cm /\ cm.op # "custom" BY <1>1, Zenon DEF CmInv
  <1>2. CASE cm' = Idle
    <2>1. cm'.op = "idle" BY <1>2, Zenon DEF Idle
    <2> QED BY <2>1, Zenon DEF CmInv
  <1>3. CASE cm' = [op |-> "closing"]
    <2>1. cm'.op = "closing" BY <1>3, Zenon
    <2> QED BY <2>1, Zenon DEF CmInv
  <1>4. ASSUME NEW d \in spoken, cm' = [op |-> "remove", d |-> d, step |-> 1]
        PROVE  CmInv' /\ (cm'.op = "remove" => cm'.step = 1) /\ cm'.op # "custom"
    <2>1. cm'.op = "remove" /\ cm'.d = d /\ cm'.step = 1 BY <1>4, Zenon
    <2>2. cm' = [op |-> "remove", d |-> cm'.d, step |-> cm'.step] BY <1>4, <2>1, Zenon
    <2>3. 1 \in 1..3 OBVIOUS
    <2> QED BY <2>1, <2>2, <2>3, Zenon DEF CmInv
  <1> QED BY <1>1, <1>2, <1>3, <1>4, Zenon

\* A handler that keeps every map and every connection's channels.
LEMMA KeptHandled ==
    ASSUME PoolInv, CmStep, DnInv', Kept, CmInv', UNCHANGED <<downstreams, senders, vardiff>>,
           BlocksPayPolicy', cm.op \in {"idle", "walk", "custom"},
           cm'.op = "remove" => cm'.step = 1,
           cm'.op = "custom" => cm'.ch \in DOMAIN dn'[cm'.d].chans
    PROVE  PoolInv'
  <1>1. VardiffMatchesChannels'
    <2>1. UNCHANGED conn BY Zenon DEF CmStep
    <2> QED BY <2>1, VardiffFollows, Zenon
  <1>2. vardiff' \in SUBSET (Miners \X ChannelIds) BY Zenon DEF PoolInv, StoreInv, Shape
  <1>3. \A d \in Miners : d \notin spoken => DOMAIN dn'[d].chans = DOMAIN dn[d].chans BY Zenon DEF Kept
  <1> QED BY <1>1, <1>2, <1>3, Handled, ZenonT(30)

\* A handler that leaves what the pool has of the templates alone.
LEMMA NoTemplate ==
    ASSUME PoolInv, UNCHANGED <<conn, seen, spoken, tp, lastFuture, lastPrevHash>>, cancelled' \in {cancelled, TRUE}
    PROVE  CmStep
  <1>1. /\ cancelled' \in BOOLEAN /\ lastFuture \in 0..MaxTemplate /\ lastPrevHash \in 0..MaxTemplate
        /\ tp \in [sent : 0..MaxTemplate, pending : 0..MaxTemplate]
    BY Zenon DEF PoolInv, StoreInv, Shape
  <1> QED BY <1>1, Zenon DEF CmStep

\* A template or a previous hash begins its walk.
LEMMA WalkBegins ==
    ASSUME PoolInv, HandleNewTemplate \/ HandleSetNewPrevHash
    PROVE  PoolInv'
  <1>0. StoreInv /\ Shape /\ DnInv /\ BlocksPayPolicy BY Zenon DEF PoolInv, StoreInv
  <1>1. /\ UNCHANGED <<downstreams, senders, vardiff, dn, conn, seen, spoken, solved, cancelled>>
        /\ cm.op = "idle"
    BY Zenon DEF HandleNewTemplate, HandleSetNewPrevHash, CmReady, maps
  <1>2. /\ tp.sent \in 0..MaxTemplate /\ tp.pending \in 0..MaxTemplate /\ cancelled' \in BOOLEAN
        /\ lastFuture \in 0..MaxTemplate /\ lastPrevHash \in 0..MaxTemplate
        /\ tp \in [sent : 0..MaxTemplate, pending : 0..MaxTemplate]
    BY <1>0, <1>1, Zenon DEF Shape
  <1>3. ASSUME NEW what, NEW t \in Templates, NEW future, StartWalk(what, t, future)
        PROVE  CmInv' /\ cm'.op = "walk"
    <2>1. cm' = [op |-> "walk", what |-> what, t |-> t, future |-> future,
                 todo |-> downstreams, done |-> {}, out |-> NoMessages]
      BY <1>3, Zenon DEF StartWalk
    <2>2. /\ cm'.op = "walk" /\ cm'.what = what /\ cm'.t = t /\ cm'.future = future
          /\ cm'.todo = downstreams /\ cm'.done = {} /\ cm'.out = NoMessages
      BY <2>1, Zenon
    <2> QED BY <2>1, <2>2, Zenon DEF CmInv
  <1>4. CmStep /\ CmInv' /\ cm'.op = "walk"
    <2>1. CASE HandleNewTemplate
      <3> DEFINE t == tp.sent + 1
      <3>1. PICK future : /\ tp' = [sent |-> t, pending |-> IF future THEN t ELSE 0]
                          /\ lastFuture' = IF future THEN t ELSE lastFuture
                          /\ StartWalk("template", t, future)
        BY <2>1, Zenon DEF HandleNewTemplate, Remembers
      <3>2. tp.sent < MaxTemplate /\ lastPrevHash' = lastPrevHash BY <2>1, Zenon DEF HandleNewTemplate
      <3>3. t \in Templates /\ t \in 0..MaxTemplate /\ t # 0 /\ 0 \in 0..MaxTemplate
        BY <1>2, <3>2, BoundsAssumption DEF Templates
      <3> HIDE DEF t
      <3>4. tp' \in [sent : 0..MaxTemplate, pending : 0..MaxTemplate] BY <3>1, <3>3, Zenon
      <3>5. lastFuture' \in 0..MaxTemplate /\ (lastFuture # 0 => lastFuture' # 0) BY <1>2, <3>1, <3>3, Zenon
      <3>6. CmStep BY <1>1, <1>2, <3>2, <3>4, <3>5, Zenon DEF CmStep
      <3> QED BY <1>3, <3>1, <3>3, <3>6, Zenon
    <2>2. CASE HandleSetNewPrevHash
      <3>1. /\ tp.pending # 0 /\ tp' = [tp EXCEPT !.pending = 0] /\ lastPrevHash' = tp.pending
            /\ StartWalk("prevhash", tp.pending, FALSE) /\ lastFuture' = lastFuture
        BY <2>2, Zenon DEF HandleSetNewPrevHash
      <3>2. tp.pending \in Templates /\ 0 \in 0..MaxTemplate BY <1>2, <3>1, BoundsAssumption DEF Templates
      <3>3. tp' \in [sent : 0..MaxTemplate, pending : 0..MaxTemplate] BY <1>2, <3>1, <3>2, Zenon
      <3>4. CmStep BY <1>1, <1>2, <3>1, <3>3, Zenon DEF CmStep
      <3> QED BY <1>3, <3>1, <3>2, <3>4, Zenon
    <2> QED BY <2>1, <2>2, Zenon
  <1>5. DnInv' /\ Kept BY <1>0, <1>1, NoRecord, Zenon
  <1>6. BlocksPayPolicy' BY <1>0, <1>1, Zenon DEF BlocksPayPolicy
  <1> QED BY <1>1, <1>4, <1>5, <1>6, KeptHandled, Zenon

\* The same walk, further on.
WalkOf(todo, done, out) ==
    [op |-> "walk", what |-> cm.what, t |-> cm.t, future |-> cm.future,
     todo |-> todo, done |-> done, out |-> out]

LEMMA VisitedIs ==
    ASSUME NEW d, cm = WalkOf(cm.todo, cm.done, cm.out)
    PROVE  Visited(d) = WalkOf(cm.todo \ {d}, cm.done \cup {d}, cm.out)
  <1> DEFINE x == cm.todo
             y == cm.done
             z == cm.out
             u == x \ {d}
             v == y \cup {d}
  <1>1. Visited(d) = [[cm EXCEPT !.todo = u] EXCEPT !.done = v] BY Zenon DEF Visited
  <1> HIDE DEF x, y, z, u, v
  <1>2. cm = WalkOf(x, y, z) BY Zenon DEF x, y, z
  <1>3. [WalkOf(x, y, z) EXCEPT !.todo = u] = WalkOf(u, y, z) BY DEF WalkOf
  <1>4. [WalkOf(u, y, z) EXCEPT !.done = v] = WalkOf(u, v, z) BY DEF WalkOf
  <1>5. [[cm EXCEPT !.todo = u] EXCEPT !.done = v] = WalkOf(u, v, z) BY <1>2, <1>3, <1>4, Zenon
  <1> QED BY <1>1, <1>5, Zenon DEF x, y, z, u, v

\* The walk visits a downstream, or is over.
LEMMA WalkKeeps ==
    ASSUME PoolInv, NEW d, (d \in Miners /\ WalkVisit(d)) \/ WalkEnd
    PROVE  PoolInv'
  <1>0. StoreInv /\ Shape /\ DnInv /\ CmInv /\ BlocksPayPolicy BY Zenon DEF PoolInv, StoreInv
  <1>1. /\ UNCHANGED <<tp, lastFuture, lastPrevHash, downstreams, senders, vardiff, conn, seen, spoken, solved>>
        /\ cm.op = "walk" /\ cancelled' \in {cancelled, TRUE}
    BY Zenon DEF WalkVisit, WalkEnd, ErrorShutdown, maps, poolState
  <1>2. CmStep BY <1>1, NoTemplate, Zenon
  <1>3. DnInv' /\ Kept
    <2>1. CASE d \in Miners /\ WalkVisit(d) BY <1>0, <2>1, DnWalk, Zenon
    <2>2. CASE WalkEnd
      <3>1. UNCHANGED dn BY <2>2, Zenon DEF WalkEnd
      <3> QED BY <1>0, <3>1, NoRecord, Zenon
    <2> QED BY <2>1, <2>2, Zenon
  <1>4. CmInv' /\ cm'.op \notin {"remove", "custom"}
    <2>1. CASE cm' = Idle \/ cm' = [op |-> "closing"]
      <3>1. CmInv' /\ cm'.op # "custom" BY <1>0, <1>1, <2>1, NextTask, Zenon
      <3>2. cm'.op # "remove"
        <4>1. CASE cm' = Idle BY <4>1, Zenon DEF Idle
        <4>2. CASE cm' = [op |-> "closing"] BY <4>2, Zenon
        <4> QED BY <2>1, <4>1, <4>2, Zenon
      <3> QED BY <3>1, <3>2, Zenon
    <2>2. ASSUME NEW m, cm' = Visited(d) \/ cm' = [Visited(d) EXCEPT !.out[d] = m]
          PROVE  CmInv' /\ cm'.op \notin {"remove", "custom"}
      <3> DEFINE todo == cm.todo \ {d}
                 done == cm.done \cup {d}
                 out == [cm.out EXCEPT ![d] = m]
      <3>1. cm = WalkOf(cm.todo, cm.done, cm.out) /\ cm.t \in Templates
        BY <1>0, <1>1, Zenon DEF CmInv, WalkOf
      <3>2. Visited(d) = WalkOf(todo, done, cm.out) BY <3>1, VisitedIs, Zenon
      <3> HIDE DEF todo, done
      <3>3. [WalkOf(todo, done, cm.out) EXCEPT !.out[d] = m] = WalkOf(todo, done, out) BY SMTT(30) DEF WalkOf
      <3> HIDE DEF out
      <3>4. ASSUME NEW x, NEW y, NEW z, cm' = WalkOf(x, y, z)
            PROVE  CmInv' /\ cm'.op \notin {"remove", "custom"}
        <4>1. /\ cm'.op = "walk" /\ cm'.what = cm.what /\ cm'.t = cm.t /\ cm'.future = cm.future
              /\ cm'.todo = x /\ cm'.done = y /\ cm'.out = z
          BY <3>4, Zenon DEF WalkOf
        <4>2. cm' = [op |-> "walk", what |-> cm'.what, t |-> cm'.t, future |-> cm'.future,
                     todo |-> cm'.todo, done |-> cm'.done, out |-> cm'.out]
          BY <3>4, <4>1, Zenon DEF WalkOf
        <4> QED BY <3>1, <4>1, <4>2, Zenon DEF CmInv
      <3> DEFINE w == WalkOf(todo, done, cm.out)
      <3>5. Visited(d) = w /\ [w EXCEPT !.out[d] = m] = WalkOf(todo, done, out) BY <3>2, <3>3, Zenon
      <3> HIDE DEF w
      <3>6. cm' = w \/ cm' = WalkOf(todo, done, out) BY <2>2, <3>5, Zenon
      <3> QED BY <3>4, <3>6, Zenon DEF w
    <2>3. \/ cm' = Idle \/ cm' = [op |-> "closing"] \/ cm' = Visited(d)
          \/ \E m : cm' = [Visited(d) EXCEPT !.out[d] = m]
      BY Zenon DEF WalkVisit, WalkEnd, ErrorShutdown
    <2> QED BY <2>1, <2>2, <2>3, Zenon
  <1>5. BlocksPayPolicy' BY <1>0, <1>1, Zenon DEF BlocksPayPolicy
  <1> QED BY <1>1, <1>2, <1>3, <1>4, <1>5, KeptHandled, Zenon

\* A miner opens or closes a channel.
LEMMA ChannelsKeep ==
    ASSUME PoolInv, NEW d \in Miners,
           \/ HandleOpenStandardMiningChannel(d) \/ HandleOpenExtendedMiningChannel(d)
           \/ HandleCloseChannel(d)
    PROVE  PoolInv'
  <1>0. StoreInv /\ Shape /\ DnInv /\ CmInv /\ BlocksPayPolicy BY Zenon DEF PoolInv, StoreInv
  <1>1. /\ UNCHANGED <<tp, lastFuture, lastPrevHash, downstreams, senders, conn, seen, spoken, solved>>
        /\ cm.op = "idle" /\ d \in downstreams /\ d \in spoken
    BY Zenon DEF HandleOpenStandardMiningChannel, HandleOpenExtendedMiningChannel, HandleCloseChannel,
                 OpenUnchanged, Serves, Takes, CmReady, poolState
  <1>2. cancelled' \in {cancelled, TRUE} /\ (UNCHANGED cm \/ cm' = [op |-> "closing"])
    BY Zenon DEF HandleOpenStandardMiningChannel, HandleOpenExtendedMiningChannel, HandleCloseChannel,
                 OpenInvalid, OpenWithTemplate, OpenForCustomWork, ErrorShutdown
  <1>3. DnInv' /\ (Opened(d) \/ Closed(d) \/ (Kept /\ UNCHANGED vardiff))
    BY <1>0, DnOpen, DnClose, Zenon
  <1>4. VardiffMatchesChannels' BY <1>1, <1>3, VardiffFollows, Zenon
  <1>5. vardiff' \in SUBSET (Miners \X ChannelIds)
    <2>1. vardiff \in SUBSET (Miners \X ChannelIds) BY <1>0, Zenon DEF Shape
    <2>2. \A c \in ChannelIds : <<d, c>> \in Miners \X ChannelIds BY Zenon
    <2>3. CASE Opened(d)
      <3>1. PICK c \in ChannelIds : vardiff' = vardiff \cup {<<d, c>>} BY <2>3, Zenon DEF Opened
      <3> QED BY <2>1, <2>2, <3>1, Zenon
    <2>4. CASE Closed(d)
      <3>1. PICK c \in ChannelIds : vardiff' = vardiff \ {<<d, c>>} BY <2>4, Zenon DEF Closed
      <3> QED BY <2>1, <3>1, Zenon
    <2> QED BY <1>3, <2>1, <2>3, <2>4, Zenon
  <1>6. \A e \in Miners : e \notin spoken => DOMAIN dn'[e].chans = DOMAIN dn[e].chans
    <2>1. Opened(d) \/ Closed(d) => \A e \in Miners : e # d => dn'[e] = dn[e] BY Zenon DEF Opened, Closed
    <2> QED BY <1>1, <1>3, <2>1, Zenon DEF Kept
  <1>7. CmInv' /\ (cm'.op = "remove" => cm'.step = 1) /\ cm'.op # "custom"
    BY <1>0, <1>1, <1>2, NextTask, Zenon
  <1>8. CmStep BY <1>1, <1>2, NoTemplate, Zenon
  <1>9. BlocksPayPolicy' BY <1>0, <1>1, Zenon DEF BlocksPayPolicy
  <1> QED BY <1>1, <1>3, <1>4, <1>5, <1>6, <1>7, <1>8, <1>9, Handled, ZenonT(30)

\* A message of a downstream that is not registered, and an update of a channel.
LEMMA MessagesKeep ==
    ASSUME PoolInv, NEW d \in Miners, UnregisteredDownstream(d) \/ HandleUpdateChannel(d)
    PROVE  PoolInv'
  <1>0. StoreInv /\ DnInv /\ CmInv /\ BlocksPayPolicy BY Zenon DEF PoolInv, StoreInv
  <1>1. /\ UNCHANGED <<tp, lastFuture, lastPrevHash, downstreams, senders, vardiff, conn, seen, spoken, solved,
                       cancelled>>
        /\ cm.op = "idle" /\ d \in spoken
        /\ UNCHANGED cm \/ cm' = [op |-> "remove", d |-> d, step |-> 1]
    BY Zenon DEF UnregisteredDownstream, HandleUpdateChannel, ErrorDisconnect, Serves, Takes, CmReady, maps, poolState
  <1>2. DnInv' /\ Kept
    <2>1. CASE UnregisteredDownstream(d)
      <3>1. UNCHANGED dn BY <2>1, Zenon DEF UnregisteredDownstream
      <3> QED BY <1>0, <3>1, NoRecord, Zenon
    <2> QED BY <1>0, <2>1, DnUpdate, Zenon
  <1>3. CmInv' /\ (cm'.op = "remove" => cm'.step = 1) /\ cm'.op # "custom"
    BY <1>0, <1>1, NextTask, Zenon
  <1>4. CmStep BY <1>1, NoTemplate, Zenon
  <1>5. BlocksPayPolicy' BY <1>0, <1>1, Zenon DEF BlocksPayPolicy
  <1> QED BY <1>1, <1>2, <1>3, <1>4, <1>5, KeptHandled, Zenon

\* A share: a block is one on a job of its channel, and pays the connection's payout.
LEMMA SharesKeep ==
    ASSUME PoolInv, NEW d \in Miners, HandleSubmitSharesStandard(d) \/ HandleSubmitSharesExtended(d)
    PROVE  PoolInv'
  <1>0. StoreInv /\ DnInv /\ CmInv /\ BlocksPayPolicy BY Zenon DEF PoolInv, StoreInv
  <1>1. cm.op = "idle" /\ d \in spoken
    BY Zenon DEF HandleSubmitSharesStandard, HandleSubmitSharesExtended, Serves, Takes, CmReady
  <1>2. PICK c \in DOMAIN dn[d].chans : \E result : SubmitShare(d, c, result)
    BY Zenon DEF HandleSubmitSharesStandard, HandleSubmitSharesExtended, ChannelsOf
  <1>3. PICK result : SubmitShare(d, c, result) BY <1>2, Zenon
  <1>4. /\ UNCHANGED <<tp, lastFuture, lastPrevHash, downstreams, senders, vardiff, dn, conn, seen, spoken, cancelled>>
        /\ UNCHANGED cm \/ cm' = [op |-> "remove", d |-> d, step |-> 1]
        /\ UNCHANGED solved \/ BlockFound(d, c)
    BY <1>3, Zenon DEF SubmitShare, BlockFound, ErrorDisconnect, maps, poolState
  <1>5. DnInv' /\ Kept BY <1>0, <1>4, NoRecord, Zenon
  <1>6. CmInv' /\ (cm'.op = "remove" => cm'.step = 1) /\ cm'.op # "custom"
    BY <1>0, <1>1, <1>4, NextTask, Zenon
  <1>7. CmStep BY <1>4, NoTemplate, Zenon
  <1>8. BlocksPayPolicy'
    <2>1. CASE UNCHANGED solved BY <1>0, <2>1, Zenon DEF BlocksPayPolicy
    <2>2. CASE BlockFound(d, c)
      <3>1. PICK job \in {dn[d].chans[c].jobs.active} \cup dn[d].chans[c].jobs.past :
                 solved' = IF job.t # 0 THEN {[job |-> job, policy |-> dn[d].payout]} ELSE {}
        BY <2>2, Zenon DEF BlockFound
      <3>2. job.t # 0 => job.p = dn[d].payout
        <4>1. PaidBy(dn[d].chans[c].jobs, dn[d].payout) BY <1>0, <1>2, Zenon DEF DnInv, Sound
        <4> QED BY <3>1, <4>1, Zenon DEF PaidBy
      <3>3. ASSUME NEW s \in solved' PROVE s.job.p = s.policy
        <4>1. job.t # 0 /\ s = [job |-> job, policy |-> dn[d].payout] BY <3>1, <3>3, Zenon
        <4>2. s.job = job /\ s.policy = dn[d].payout BY <4>1, Zenon
        <4> QED BY <3>2, <4>1, <4>2, Zenon
      <3> QED BY <3>3, Zenon DEF BlocksPayPolicy
    <2> QED BY <1>4, <2>1, <2>2, Zenon
  <1> QED BY <1>1, <1>4, <1>5, <1>6, <1>7, <1>8, KeptHandled, Zenon

\* A custom job before the job declarator has answered, and after.
LEMMA CustomKeeps ==
    ASSUME PoolInv, CommitCustomJob \/ \E d \in Miners : HandleSetCustomMiningJob(d)
    PROVE  PoolInv'
  <1>0. StoreInv /\ DnInv /\ CmInv /\ BlocksPayPolicy BY Zenon DEF PoolInv, StoreInv
  <1>1. /\ UNCHANGED <<tp, lastFuture, lastPrevHash, downstreams, senders, vardiff, conn, seen, spoken, solved,
                       cancelled>>
        /\ cm.op \in {"idle", "custom"}
    BY Zenon DEF CommitCustomJob, HandleSetCustomMiningJob, ErrorDisconnect, Serves, Takes, CmReady, maps, poolState
  <1>2. CmStep BY <1>1, NoTemplate, Zenon
  <1>3. BlocksPayPolicy' BY <1>0, <1>1, Zenon DEF BlocksPayPolicy
  <1>4. CASE CommitCustomJob
    <2>1. DnInv' /\ Kept BY <1>0, <1>4, DnCommit, Zenon
    <2>2. cm.op = "custom" /\ cm.d \in spoken BY <1>0, <1>4, Zenon DEF CommitCustomJob, CmInv
    <2>3. cm' = Idle \/ cm' = [op |-> "remove", d |-> cm.d, step |-> 1]
      BY <1>4, Zenon DEF CommitCustomJob, ErrorDisconnect
    <2>4. CmInv' /\ (cm'.op = "remove" => cm'.step = 1) /\ cm'.op # "custom"
      BY <1>0, <1>1, <2>2, <2>3, NextTask, Zenon
    <2> QED BY <1>1, <1>2, <1>3, <2>1, <2>2, <2>4, KeptHandled, Zenon
  <1>5. ASSUME NEW d \in Miners, HandleSetCustomMiningJob(d)
        PROVE  PoolInv'
    <2>1. cm.op = "idle" /\ d \in spoken /\ UNCHANGED dn
      BY <1>5, Zenon DEF HandleSetCustomMiningJob, Serves, Takes, CmReady
    <2>2. DnInv' /\ Kept BY <1>0, <2>1, NoRecord, Zenon
    <2>3. PICK c \in ChannelIds :
               \/ UNCHANGED cm \/ cm' = Idle
               \/ c \in DOMAIN dn[d].chans /\ cm' = [op |-> "custom", d |-> d, ch |-> c]
      BY <1>5, Zenon DEF HandleSetCustomMiningJob, ChannelsOf
    <2>4. CASE UNCHANGED cm \/ cm' = Idle
      <3>1. CmInv' /\ (cm'.op = "remove" => cm'.step = 1) /\ cm'.op # "custom"
        BY <1>0, <1>1, <2>1, <2>4, NextTask, Zenon
      <3> QED BY <1>1, <1>2, <1>3, <2>1, <2>2, <3>1, KeptHandled, Zenon
    <2>5. CASE c \in DOMAIN dn[d].chans /\ cm' = [op |-> "custom", d |-> d, ch |-> c]
      <3>1. cm'.op = "custom" /\ cm'.d = d /\ cm'.ch = c BY <2>5, Zenon
      <3>2. CmInv' BY <1>1, <2>1, <3>1, Zenon DEF CmInv
      <3>3. cm'.ch \in DOMAIN dn'[cm'.d].chans BY <2>1, <2>5, <3>1, Zenon
      <3> QED BY <1>1, <1>2, <1>3, <2>1, <2>2, <3>1, <3>2, <3>3, KeptHandled, Zenon
    <2> QED BY <2>3, <2>4, <2>5, Zenon
  <1> QED BY <1>4, <1>5, Zenon

\* The vardiff loop.
LEMMA VardiffKeeps ==
    ASSUME PoolInv, RunVardiff
    PROVE  PoolInv'
  <1>0. StoreInv /\ Shape /\ DnInv /\ CmInv /\ BlocksPayPolicy BY Zenon DEF PoolInv, StoreInv
  <1>1. /\ UNCHANGED <<tp, lastFuture, lastPrevHash, downstreams, senders, conn, seen, spoken, cm, solved, cancelled>>
        /\ cm.op = "idle"
    BY Zenon DEF RunVardiff, CmReady, poolState
  <1>2. DnInv' /\ Kept /\ vardiff' = {k \in vardiff : k[1] \in downstreams} BY <1>0, DnVardiff, Zenon
  <1>3. VardiffMatchesChannels' BY <1>1, <1>2, VardiffFollows, Zenon
  <1>4. vardiff' \in SUBSET (Miners \X ChannelIds) BY <1>0, <1>2, Zenon DEF Shape
  <1>5. \A d \in Miners : d \notin spoken => DOMAIN dn'[d].chans = DOMAIN dn[d].chans BY <1>2, Zenon DEF Kept
  <1>6. CmInv' /\ (cm'.op = "remove" => cm'.step = 1) /\ cm'.op # "custom"
    BY <1>0, <1>1, NextTask, Zenon
  <1>7. CmStep BY <1>1, NoTemplate, Zenon
  <1>8. BlocksPayPolicy' BY <1>0, <1>1, Zenon DEF BlocksPayPolicy
  <1> QED BY <1>1, <1>2, <1>3, <1>4, <1>5, <1>6, <1>7, <1>8, Handled, ZenonT(30)

\* The channel manager removes a downstream.
LEMMA RemoveKeeps ==
    ASSUME PoolInv, CmRemove
    PROVE  PoolInv'
  <1> DEFINE d == cm.d
             step == cm.step
             Of(k) == k[1] = d
  <1>0. StoreInv /\ RegInv /\ CustomJobFindsChannel /\ BlocksPayPolicy /\ Shape /\ DnInv /\ CmInv /\ ConnInv
    BY Zenon DEF PoolInv, StoreInv
  <1>1. /\ UNCHANGED <<tp, lastFuture, lastPrevHash, dn, conn, seen, spoken, miner, solved, cancelled>>
        /\ cm.op = "remove" /\ RemoveStep(d, step)
    BY Zenon DEF CmRemove, poolState
  <1>2. d \in spoken /\ step \in 1..3 /\ cm = [op |-> "remove", d |-> d, step |-> step]
    BY <1>0, <1>1, Zenon DEF CmInv
  <1>3. d \in Miners /\ conn[d] \notin Early BY <1>0, <1>2, Zenon DEF Shape, ConnInv
  <1>4. cm' = IF step < 3 THEN [cm EXCEPT !.step = step + 1] ELSE Idle BY Zenon DEF CmRemove
  <1> HIDE DEF d, step
  <1>5. \/ /\ step = 1 /\ cm' = [op |-> "remove", d |-> d, step |-> 2] /\ downstreams' = downstreams \ {d}
           /\ UNCHANGED <<vardiff, senders>>
        \/ /\ step = 2 /\ cm' = [op |-> "remove", d |-> d, step |-> 3] /\ vardiff' = {k \in vardiff : ~Of(k)}
           /\ UNCHANGED <<downstreams, senders>>
        \/ /\ step = 3 /\ cm' = Idle /\ senders' = senders \ {d}
           /\ UNCHANGED <<downstreams, vardiff>>
    <2>1. step = 1 \/ step = 2 \/ step = 3 BY <1>2
    <2>2. step # 3 => cm' = [op |-> "remove", d |-> d, step |-> step + 1] BY <1>2, <1>4
    <2>3. step = 3 => cm' = Idle BY <1>4
    <2>4. 1 + 1 = 2 /\ 2 + 1 = 3 OBVIOUS
    <2> QED BY <1>1, <2>1, <2>2, <2>3, <2>4 DEF RemoveStep
  <1>6. downstreams' = downstreams \ {d}
    <2>1. step # 1 => d \notin downstreams BY <1>0, <1>1, Zenon DEF RegInv, d, step
    <2> QED BY <1>5, <2>1
  <1>7. d \notin downstreams' BY <1>6, Zenon
  <1>8. /\ senders' \subseteq senders /\ \A e \in senders : e # d => e \in senders'
        /\ vardiff' \subseteq vardiff
        /\ \A k \in vardiff : ~Of(k) => k \in vardiff'
    BY <1>5, Zenon
  <1>9. /\ CmInv' /\ cm'.op \in {"remove", "idle"}
        /\ cm'.op = "remove" => cm'.d = d
        /\ \A k \in vardiff' : Of(k) => (cm'.op = "remove" /\ cm'.step = 2) \/ step = 3
    <2>1. ASSUME NEW n \in 1..3, cm' = [op |-> "remove", d |-> d, step |-> n]
          PROVE  CmInv' /\ cm'.op = "remove" /\ cm'.d = d /\ cm'.step = n
      <3>1. cm'.op = "remove" /\ cm'.d = d /\ cm'.step = n BY <2>1, Zenon
      <3>2. cm' = [op |-> "remove", d |-> cm'.d, step |-> cm'.step] BY <2>1, <3>1, Zenon
      <3> QED BY <1>1, <1>2, <3>1, <3>2, Zenon DEF CmInv
    <2>2. 2 \in 1..3 /\ 3 \in 1..3 OBVIOUS
    <2>3. CASE step = 1 BY <1>5, <2>1, <2>2, <2>3
    <2>4. CASE step = 2
      <3>1. CmInv' /\ cm'.op = "remove" /\ cm'.d = d BY <1>5, <2>1, <2>2, <2>4
      <3>2. \A k \in vardiff' : ~Of(k) BY <1>5, <2>4
      <3> QED BY <3>1, <3>2, Zenon
    <2>5. CASE step = 3
      <3>1. cm' = Idle BY <1>5, <2>5
      <3>2. cm'.op = "idle" BY <3>1, Zenon DEF Idle
      <3> QED BY <2>5, <3>2, Zenon DEF CmInv
    <2> QED BY <1>5, <2>3, <2>4, <2>5, Zenon
  <1>10. StoreInv'
    <2>1. DnInv' /\ Kept BY <1>0, <1>1, NoRecord, Zenon
    <2>2. cancelled' \in {cancelled, TRUE} BY <1>1, Zenon
    <2>3. CmStep BY <1>1, <2>2, NoTemplate, Zenon
    <2>4. downstreams' \subseteq downstreams /\ vardiff' \in SUBSET (Miners \X ChannelIds)
      BY <1>0, <1>6, <1>8, Zenon DEF Shape
    <2>5. \A e \in Miners : e \notin spoken => DOMAIN dn'[e].chans = DOMAIN dn[e].chans BY <2>1, Zenon DEF Kept
    <2> QED BY <1>0, <1>8, <1>9, <2>1, <2>3, <2>4, <2>5, CmStored, Zenon
  <1>11. \A e \in downstreams' : e \in downstreams /\ e # d BY <1>6, Zenon
  <1>12. \A e \in Miners : conn'[e] = "sender" /\ cm'.op # "stopped" => e \in senders'
    <2>1. conn[d] # "sender" BY <1>3, Zenon DEF Early
    <2> QED BY <1>0, <1>1, <1>8, <2>1, Zenon DEF RegInv
  <1>13. cm'.op = "remove" /\ cm'.step # 1 => cm'.d \notin downstreams' BY <1>7, <1>9, Zenon
  <1>14. RegisteredHaveSender' BY <1>0, <1>1, <1>8, <1>11, Zenon DEF RegInv, RegisteredHaveSender
  <1>15. VardiffMatchesChannels'
    <2>1. ASSUME NEW e \in downstreams', NEW c \in DOMAIN dn'[e].chans PROVE <<e, c>> \in vardiff'
      <3>1. <<e, c>> \in vardiff BY <1>0, <1>1, <1>11, Zenon DEF RegInv, VardiffMatchesChannels
      <3>2. ~Of(<<e, c>>) BY <1>11
      <3> QED BY <1>8, <3>1, <3>2, Zenon
    <2>2. ASSUME NEW k \in vardiff'
          PROVE  (k[1] \in downstreams' /\ k[2] \in DOMAIN dn'[k[1]].chans) \/ Removing(k[1])'
      <3>1. (k[1] \in downstreams /\ k[2] \in DOMAIN dn[k[1]].chans) \/ Removing(k[1])
        BY <1>0, <1>8, <2>2, Zenon DEF RegInv, VardiffMatchesChannels
      <3>2. CASE Of(k)
        <4>1. CASE cm'.op = "remove" /\ cm'.step = 2 BY <1>9, <3>2, <4>1, Zenon DEF Removing
        <4>2. CASE step = 3
          <5>1. downstreams' = downstreams /\ cm.step # 2 BY <1>5, <4>2 DEF step
          <5>2. conn[k[1]] = "removing2" BY <1>7, <3>1, <3>2, <5>1, Zenon DEF Removing
          <5> QED BY <1>1, <5>2, Zenon DEF Removing
        <4> QED BY <1>9, <3>2, <4>1, <4>2, Zenon
      <3>3. CASE ~Of(k)
        <4>1. k[1] \in downstreams => k[1] \in downstreams' BY <1>6, <3>3, Zenon
        <4>2. Removing(k[1]) => conn[k[1]] = "removing2" BY <3>3, Zenon DEF Removing, d
        <4> QED BY <1>1, <3>1, <4>1, <4>2, Zenon DEF Removing
      <3> QED BY <3>2, <3>3, Zenon
    <2> QED BY <2>1, <2>2, Zenon DEF VardiffMatchesChannels
  <1>16. CustomJobFindsChannel' BY <1>9, Zenon DEF CustomJobFindsChannel
  <1>17. BlocksPayPolicy' BY <1>0, <1>1, Zenon DEF BlocksPayPolicy
  <1>18. \A e \in downstreams' : conn'[e] \in {"setup", "running", "closing"}
    BY <1>0, <1>1, <1>11, Zenon DEF RegInv
  <1> QED BY <1>10, <1>12, <1>13, <1>14, <1>15, <1>16, <1>17, <1>18, Zenon DEF PoolInv, RegInv

\* The channel manager's loop is over.
LEMMA CloseKeeps ==
    ASSUME PoolInv, CmClose
    PROVE  PoolInv'
  <1>0. StoreInv /\ RegInv /\ BlocksPayPolicy /\ Shape /\ DnInv BY Zenon DEF PoolInv, StoreInv
  <1>1. /\ UNCHANGED <<tp, lastFuture, lastPrevHash, downstreams, vardiff, dn, conn, seen, spoken, solved, cancelled>>
        /\ cm.op \in {"closing", "idle"} /\ cm' = Stopped /\ senders' = {}
    BY Zenon DEF CmClose, poolState
  <1>2. cm'.op = "stopped" BY <1>1, Zenon DEF Stopped
  <1>3. CmInv' BY <1>2, Zenon DEF CmInv
  <1>4. StoreInv'
    <2>1. DnInv' /\ Kept BY <1>0, <1>1, NoRecord, Zenon
    <2>2. cancelled' \in {cancelled, TRUE} BY <1>1, Zenon
    <2>3. CmStep BY <1>1, <2>2, NoTemplate, Zenon
    <2>4. /\ senders' \subseteq senders /\ downstreams' \subseteq downstreams
          /\ vardiff' \in SUBSET (Miners \X ChannelIds)
      BY <1>0, <1>1, Zenon DEF Shape
    <2>5. \A e \in Miners : e \notin spoken => DOMAIN dn'[e].chans = DOMAIN dn[e].chans BY <2>1, Zenon DEF Kept
    <2> QED BY <1>0, <1>3, <2>1, <2>3, <2>4, <2>5, CmStored, Zenon
  <1>5. VardiffMatchesChannels'
    <2>1. Kept /\ cm.op # "remove" BY <1>0, <1>1, NoRecord, Zenon
    <2> QED BY <1>1, <2>1, VardiffFollows, Zenon
  <1>6. RegInv' BY <1>0, <1>1, <1>2, <1>5, Zenon DEF RegInv, RegisteredHaveSender
  <1>7. CustomJobFindsChannel' BY <1>2, Zenon DEF CustomJobFindsChannel
  <1>8. BlocksPayPolicy' BY <1>0, <1>1, Zenon DEF BlocksPayPolicy
  <1> QED BY <1>4, <1>6, <1>7, <1>8, Zenon DEF PoolInv

----------------------------------------------------------------------------
(* The theorems.                                                             *)

\* The pool starts with empty maps and no connection.
LEMMA PoolInit ==
    ASSUME Init
    PROVE  PoolInv
  <1>1. Shape
    <2>1. 0 \in 0..MaxTemplate BY BoundsAssumption
    <2>2. "absent" \in Connections BY Zenon DEF Connections
    <2>3. [sent |-> 0, pending |-> 0] \in [sent : 0..MaxTemplate, pending : 0..MaxTemplate] BY <2>1, Zenon
    <2>4. [template |-> 0, prevHash |-> 0] \in [template : 0..MaxTemplate, prevHash : 0..MaxTemplate] BY <2>1, Zenon
    <2>5. conn \in [Miners -> Connections] BY <2>2, Zenon DEF Init
    <2>6. seen \in [Miners -> [template : 0..MaxTemplate, prevHash : 0..MaxTemplate]] BY <2>4, Zenon DEF Init
    <2> QED BY <2>1, <2>3, <2>5, <2>6, Zenon DEF Init, Shape
  <1>2. DnInv
    <2>1. dn = [d \in Miners |-> NewDownstream] BY Zenon DEF Init
    <2>2. NewDownstream \in Downstreams BY NewDownstreamSound, Zenon DEF Sound
    <2> QED BY <2>1, <2>2, NewDownstreamSound, Zenon DEF DnInv
  <1>3. cm.op = "idle" BY Zenon DEF Init, Idle
  <1>4. CmInv BY <1>3, Zenon DEF CmInv
  <1>5. ConnInv
    <2>1. \A d \in Miners : conn[d] = "absent" /\ d \notin spoken /\ dn[d] = NewDownstream BY Zenon DEF Init
    <2> QED BY <2>1, NewDownstreamSound, Zenon DEF ConnInv
  <1>6. RegInv
    <2>1. downstreams = {} /\ vardiff = {} /\ \A d \in Miners : conn[d] = "absent" BY Zenon DEF Init
    <2> QED BY <1>3, <2>1, Zenon DEF RegInv, RegisteredHaveSender, VardiffMatchesChannels
  <1>7. CustomJobFindsChannel BY <1>3, Zenon DEF CustomJobFindsChannel
  <1>8. BlocksPayPolicy BY Zenon DEF Init, BlocksPayPolicy
  <1> QED BY <1>1, <1>2, <1>4, <1>5, <1>6, <1>7, <1>8, Zenon DEF PoolInv, StoreInv

\* Every step keeps the invariant.
LEMMA PoolStep ==
    ASSUME PoolInv, [Next]_vars
    PROVE  PoolInv'
  <1>1. CASE UNCHANGED vars
    <2>1. StoreInv /\ RegInv /\ CustomJobFindsChannel /\ BlocksPayPolicy BY Zenon DEF PoolInv
    <2>2. UNCHANGED <<tp, lastFuture, lastPrevHash, downstreams, senders, vardiff, dn, conn, seen, spoken, cm,
                      solved, cancelled>>
      BY <1>1, Zenon DEF vars
    <2>3. Shape' BY <2>1, <2>2, Zenon DEF StoreInv, Shape
    <2>4. DnInv' BY <2>1, <2>2, Zenon DEF StoreInv, DnInv, Sound
    <2>5. CmInv' BY <2>1, <2>2, Zenon DEF StoreInv, CmInv
    <2>6. ConnInv' BY <2>1, <2>2, Zenon DEF StoreInv, ConnInv
    <2>7. RegInv' BY <2>1, <2>2, Zenon DEF RegInv, RegisteredHaveSender, VardiffMatchesChannels, Removing
    <2>8. CustomJobFindsChannel' /\ BlocksPayPolicy'
      BY <2>1, <2>2, Zenon DEF CustomJobFindsChannel, BlocksPayPolicy
    <2> QED BY <2>3, <2>4, <2>5, <2>6, <2>7, <2>8, Zenon DEF PoolInv, StoreInv
  <1>2. ASSUME NEW d \in Miners, ConnectionStep(d) PROVE PoolInv'
    BY <1>2, ReadsKeep, ConnectionKeeps, DisconnectKeeps, Zenon
       DEF ConnectionStep, PeerLeaves, ExtensionsRefused, SenderDropped, StopSeen
  <1>3. ASSUME NEW d \in Miners, MiningMessage(d) PROVE PoolInv'
    BY <1>3, MessagesKeep, ChannelsKeep, SharesKeep, CustomKeeps, Zenon DEF MiningMessage
  <1>4. ASSUME NEW d \in Miners, WalkVisit(d) PROVE PoolInv' BY <1>4, WalkKeeps, Zenon
  <1>5. CASE WalkEnd BY <1>5, WalkKeeps, Zenon
  <1>6. CASE HandleNewTemplate \/ HandleSetNewPrevHash BY <1>6, WalkBegins, Zenon
  <1>7. CASE CommitCustomJob BY <1>7, CustomKeeps, Zenon
  <1>8. CASE RunVardiff BY <1>8, VardiffKeeps, Zenon
  <1>9. CASE CmRemove BY <1>9, RemoveKeeps, Zenon
  <1>10. CASE CmClose BY <1>10, CloseKeeps, Zenon
  <1> QED BY <1>1, <1>2, <1>3, <1>4, <1>5, <1>6, <1>7, <1>8, <1>9, <1>10, Zenon DEF Next

\* The invariant says that the maps agree.
LEMMA PoolRegisters ==
    ASSUME PoolInv
    PROVE  RegistersAgree
  <1>1. StoreInv /\ Shape /\ DnInv /\ RegInv BY Zenon DEF PoolInv, StoreInv
  <1>2. ASSUME NEW d \in Miners
        PROVE  /\ dn[d].group \in JobSets /\ dn[d].members \subseteq DOMAIN dn[d].chans
               /\ DOMAIN dn[d].chans \subseteq ChannelIds /\ dn[d].payout \in Payouts \cup {NoPayout}
               /\ \A c \in DOMAIN dn[d].chans : dn[d].chans[c].jobs \in JobSets /\ dn[d].chans[c].target \in Targets
    <2>1. Sound(dn[d]) BY <1>1, Zenon DEF DnInv
    <2>2. \A ch \in Channels : ch.target \in Targets BY Zenon DEF Channels
    <2>3. \A c \in DOMAIN dn[d].chans : dn[d].chans[c].jobs \in JobSets /\ dn[d].chans[c].target \in Targets
      BY <2>1, <2>2, ChannelsOfSound, Zenon
    <2> QED BY <2>1, <2>3, ChannelsOfSound, Zenon
  <1>3. TypeOK
    <2>1. downstreams \subseteq Miners /\ senders \subseteq Miners /\ spoken \subseteq Miners
          /\ vardiff \subseteq Miners \X ChannelIds
      BY <1>1, Zenon DEF Shape
    <2> QED BY <1>1, <1>2, <2>1, Zenon DEF TypeOK, Shape, Connections
  <1> QED BY <1>1, <1>3, Zenon DEF RegistersAgree, RegInv

\* The three maps agree at every step of every task: `downstream_sender` has a
\* sender for whatever `downstreams` has, and `vardiff` an entry for each of its
\* channels and none that outlives its downstream (remove_downstream, on_disconnect).
THEOREM PoolRegistersAgree == Spec => []RegistersAgree
  <1>1. Init => PoolInv BY PoolInit, Zenon
  <1>2. PoolInv /\ [Next]_vars => PoolInv' BY PoolStep, Zenon
  <1>3. PoolInv => RegistersAgree BY PoolRegisters, Zenon
  <1> QED BY <1>1, <1>2, <1>3, PTL DEF Spec

\* A block submitted to the template provider pays the payout of the connection
\* whose share it was, on an active or a past job of a channel (handle_submit_shares_standard,
\* handle_submit_shares_extended).
THEOREM PoolBlocksPayPolicy == Spec => []BlocksPayPolicy
  <1>1. Init => PoolInv BY PoolInit, Zenon
  <1>2. PoolInv /\ [Next]_vars => PoolInv' BY PoolStep, Zenon
  <1>3. PoolInv => BlocksPayPolicy BY Zenon DEF PoolInv
  <1> QED BY <1>1, <1>2, <1>3, PTL DEF Spec

\* The channel a custom job was declared for is still there when the job declarator
\* has taken its token, unless the connection is gone (handle_set_custom_mining_job).
THEOREM PoolCustomJobFindsChannel == Spec => []CustomJobFindsChannel
  <1>1. Init => PoolInv BY PoolInit, Zenon
  <1>2. PoolInv /\ [Next]_vars => PoolInv' BY PoolStep, Zenon
  <1>3. PoolInv => CustomJobFindsChannel BY Zenon DEF PoolInv
  <1> QED BY <1>1, <1>2, <1>3, PTL DEF Spec
=============================================================================
