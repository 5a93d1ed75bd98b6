--------------------- MODULE TemplateDistributionProofs ---------------------
(* The template runtime implements the stream its users rely on, for any     *)
(* number of tips, constraints and templates and any cap.                    *)
(* Its steps also keep every template a user may still send a solution for,  *)
(* given what the cap does (TemplateRetentionProofs).                        *)
EXTENDS TemplateDistribution, TLAPS

----------------------------------------------------------------------------
(* Sequences.                                                                *)

\* A sequence has a length, and its elements are of its set.
LEMMA SeqElements ==
    ASSUME NEW S, NEW s \in Seq(S)
    PROVE  Len(s) \in Nat /\ \A n \in 1..Len(s) : s[n] \in S
  OBVIOUS

\* What is left when the first message is read.
LEMMA SeqRead ==
    ASSUME NEW S, NEW s \in Seq(S), s # <<>>
    PROVE  /\ Tail(s) \in Seq(S) /\ Len(Tail(s)) = Len(s) - 1 /\ Len(s) \in Nat \ {0}
           /\ Head(s) = s[1] /\ s[1] \in S
           /\ \A n \in 1..Len(s) - 1 : Tail(s)[n] = s[n + 1]
  OBVIOUS

\* What a message is appended to keeps its messages.
LEMMA SeqAppend ==
    ASSUME NEW S, NEW s \in Seq(S), NEW e \in S
    PROVE  /\ Append(s, e) \in Seq(S) /\ Len(Append(s, e)) = Len(s) + 1 /\ Append(s, e)[Len(s) + 1] = e
           /\ \A n \in 1..Len(s) : Append(s, e)[n] = s[n]
  OBVIOUS

\* Two messages at once, or one.
LEMMA SeqConcat ==
    ASSUME NEW S, NEW s \in Seq(S)
    PROVE  /\ \A t \in Seq(S) :
                 /\ s \o t \in Seq(S) /\ Len(s \o t) = Len(s) + Len(t)
                 /\ \A i \in 1..Len(s) + Len(t) : (s \o t)[i] = IF i <= Len(s) THEN s[i] ELSE t[i - Len(s)]
           /\ \A e \in S : s \o <<e>> = Append(s, e)
  OBVIOUS

\* The positions of a sequence that has grown by one.
LEMMA OneMore ==
    ASSUME NEW a \in Nat, NEW b, b = a + 1
    PROVE  /\ b \in Nat /\ 1 \in 1..b /\ 1 \in 1..a + 1
           /\ \A n \in 1..b : n = a + 1 \/ (n \in 1..a /\ n + 1 \in 1..a + 1)
           /\ \A n \in a + 1..b : n = a + 1
  OBVIOUS

\* The positions of a sequence that has lost its first.
LEMMA OneLess ==
    ASSUME NEW a \in Nat, NEW b, b = a - 1
    PROVE  /\ \A n \in 1..b : n + 1 \in 1..a /\ n + 1 \in Nat \ {0} /\ n \in 1..a - 1
           /\ a # 0 => 1 \in 1..a
  OBVIOUS

\* An identifier is not the zero that stands for none.
LEMMA NotZero == ASSUME NEW k \in Nat, NEW i \in 1..k PROVE i # 0 /\ i \in 0..k
  OBVIOUS

\* A counter that has not passed its bound.
LEMMA Between == ASSUME NEW k \in Nat, NEW i \in 1..k + 1, i <= k PROVE i \in 1..k
  OBVIOUS

----------------------------------------------------------------------------
(* Retained templates.                                                       *)

Retained == [tip : 1..MaxTip, epoch : 1..MaxEpoch, retired : {"no", "grace", "due"}]
IsRetained(f) == DOMAIN f \in SUBSET (1..MaxId) /\ f \in [DOMAIN f -> Retained]

Published == [id : 1..MaxId, tip : 1..MaxTip, epoch : 1..MaxEpoch]

\* Every template of f is one of g, of the same tip and constraints, no closer
\* to its end than retirement.
Ages(f, g) ==
    \A i \in DOMAIN g :
        /\ g[i].tip = f[i].tip /\ g[i].epoch = f[i].epoch
        /\ g[i].retired = "no" => f[i].retired = "no"
        /\ g[i].retired = "due" => f[i].retired = "due"
\* retire_templates_beyond_cap retires some templates and destroys none.
LEMMA CapKeepsShape ==
    ASSUME NEW ret, IsRetained(ret), NEW fut
    PROVE  LET s == retire_templates_beyond_cap(Stored(ret, fut))
           IN  /\ IsRetained(s.ret) /\ DOMAIN s.ret = DOMAIN ret /\ s.fut = fut
               /\ Ages(ret, s.ret)
  <1> DEFINE live == Live(ret)
             m == OldestKept(live)
             kept == [i \in DOMAIN ret |-> IF i < m THEN Retire(ret[i]) ELSE ret[i]]
             s == retire_templates_beyond_cap(Stored(ret, fut))
  <1>1. s = Stored(ret, fut) \/ s = Stored(kept, fut) BY DEF retire_templates_beyond_cap, Stored
  <1> HIDE DEF m
  <1>2. IsRetained(kept) /\ DOMAIN kept = DOMAIN ret /\ Ages(ret, kept)
    BY DEF IsRetained, Retained, Ages, Retire
  <1>3. Ages(ret, ret) BY DEF Ages
  <1> HIDE DEF kept, s
  <1> QED BY <1>1, <1>2, <1>3 DEF Stored, s

\* retire_all_templates leaves none alive, forgets none and destroys none.
LEMMA RetireAllKeeps ==
    ASSUME NEW ret, IsRetained(ret), NEW fut \in Published \cup {NoTemplate}
    PROVE  LET s == retire_all_templates(Stored(ret, fut))
           IN  /\ IsRetained(s.ret) /\ s.fut = NoTemplate /\ Live(s.ret) = {}
               /\ DOMAIN s.ret = DOMAIN ret \cup (IF fut = NoTemplate THEN {} ELSE {fut.id})
               /\ \A i \in DOMAIN s.ret : s.ret[i].retired = "due" => i \in DOMAIN ret /\ ret[i].retired = "due"
               /\ fut # NoTemplate => s.ret[fut.id].retired = "grace"
  BY DEF retire_all_templates, Stored, IsRetained, Retained, Published, NoTemplate, Live, Put,
         AsRetained, Retire

----------------------------------------------------------------------------
(* The first invariant: what each task holds, one task at a time that        *)
(* publishes, and nobody who knows of a template before it is published.     *)

InMessages == [k : {"con"}, epoch : 1..MaxEpoch] \cup [k : {"data", "sol"}, id : 1..MaxId]
OutMessages ==
    [k : {"new"}, future : BOOLEAN, id : 1..MaxId, tip : 1..MaxTip, epoch : 1..MaxEpoch]
        \cup [k : {"prev"}, id : 1..MaxId, tip : 1..MaxTip]
        \cup [k : {"data"}, id : 1..MaxId, ok : BOOLEAN]

MonShape(m) ==
    /\ m.st \in {"off", "thread", "wait", "fetch", "exit"}
    /\ m.st = "wait" => m.base \in Published
    /\ m.st = "fetch" => m.got \in Published
IncShape(m) ==
    /\ m.st \in {"off", "idle", "join", "boot", "data", "submit", "exit"}
    /\ m.st = "join" => m.epoch \in 1..MaxEpoch
    /\ m.st = "data" => m.id \in 1..MaxId
BootShape(m) ==
    /\ m.st \in {"off", "create", "fetch"}
    /\ m.st = "create" => m.epoch \in 1..MaxEpoch
    /\ m.st = "fetch" => m.got \in Published

Shape ==
    /\ coreTip \in 1..MaxTip
    /\ phase \in {"first", "boot", "run", "drain", "done"}
    /\ cancelled \in BOOLEAN /\ monStop \in BOOLEAN /\ handle \in BOOLEAN
    /\ throttled \in BOOLEAN /\ lost \in BOOLEAN
    /\ MonShape(mon) /\ IncShape(inc) /\ BootShape(boot)
    /\ due \in SUBSET (1..MaxId) /\ IsRetained(held)
    /\ future \in Published \cup {NoTemplate} /\ current \in Published \cup {NoTemplate}
    /\ nextId \in 1..MaxId + 1 /\ nextEpoch \in 1..MaxEpoch + 1
    /\ inbox \in Seq(InMessages) /\ out \in Seq(OutMessages)
    /\ user \in [future : 0..MaxId, jobs : SUBSET (1..MaxId)]

\* A monitor runs only while no bootstrap does, and under the constraints of the
\* last bootstrap; what either has fetched is newer than what was published.
OnePublisher ==
    /\ current.id < nextId
    /\ phase = "first" => mon.st = "off" /\ boot.st = "off"
    /\ boot.st # "off" => mon.st \in {"off", "exit"}
    /\ boot.st = "fetch" => current.id < boot.got.id /\ boot.got.id < nextId
    /\ mon.st \in {"thread", "wait", "fetch"} => current # NoTemplate
    /\ mon.st = "wait" => mon.base.epoch = current.epoch
    /\ mon.st = "fetch" =>
          current.id < mon.got.id /\ mon.got.id < nextId /\ mon.got.epoch = current.epoch

\* The user and the messages only name templates that were published.
NamedPublished ==
    /\ inc.st = "data" => inc.id <= current.id
    /\ \A n \in 1..Len(inbox) : inbox[n].k # "con" => inbox[n].id <= current.id
    /\ \A n \in 1..Len(out) : out[n].id <= current.id
    /\ user.future <= current.id
    /\ \A j \in user.jobs : j <= current.id

FlowInv == Shape /\ OnePublisher /\ NamedPublished

\* What the invariants read of a state that a step leaves alone.
LEMMA FlowUnchanged ==
    ASSUME FlowInv, UNCHANGED vars
    PROVE  FlowInv'
  BY DEF FlowInv, Shape, OnePublisher, NamedPublished, vars, runtime, store, wire, userVars

\* run() has published nothing when it waits for the first constraints.
LEMMA FlowInit == Init => FlowInv
  <1> SUFFICES ASSUME Init PROVE FlowInv OBVIOUS
  <1> USE BoundsAssumption DEF Init, Off, NoTemplate
  <1>1. IsRetained(held) BY DEF IsRetained
  <1>2. inbox \in Seq(InMessages) /\ out \in Seq(OutMessages) /\ Len(inbox) = 0 /\ Len(out) = 0
    OBVIOUS
  <1>3. MonShape(mon) /\ IncShape(inc) /\ BootShape(boot) BY DEF MonShape, IncShape, BootShape
  <1>6. user \in [future : 0..MaxId, jobs : SUBSET (1..MaxId)] OBVIOUS
  <1>7. /\ coreTip \in 1..MaxTip /\ nextId \in 1..MaxId + 1 /\ nextEpoch \in 1..MaxEpoch + 1
        /\ due \in SUBSET (1..MaxId)
    OBVIOUS
  <1>8. Shape BY <1>1, <1>2, <1>3, <1>6, <1>7, Zenon DEF Shape
  <1>4. OnePublisher BY DEF OnePublisher
  <1>5. NamedPublished BY <1>2 DEF NamedPublished
  <1> QED BY <1>8, <1>4, <1>5 DEF FlowInv

\* The ids a state holds are numbers.
LEMMA Ids ==
    ASSUME Shape
    PROVE  /\ current.id \in Nat /\ nextId \in Nat /\ user.future \in Nat
           /\ mon.st = "fetch" => mon.got.id \in Nat
           /\ boot.st = "fetch" => boot.got.id \in Nat
           /\ inc.st = "data" => inc.id \in Nat
           /\ \A n \in 1..Len(inbox) : inbox[n].k # "con" => inbox[n].id \in Nat
           /\ \A n \in 1..Len(out) : out[n].id \in Nat
           /\ \A j \in user.jobs : j \in Nat
  <1> USE BoundsAssumption
  <1>1. current.id \in Nat /\ nextId \in Nat
    <2>1. current \in Published \cup {NoTemplate} /\ nextId \in 1..MaxId + 1 BY DEF Shape
    <2> QED BY <2>1 DEF Published, NoTemplate
  <1>2. user.future \in Nat /\ \A j \in user.jobs : j \in Nat BY DEF Shape
  <1>0. MonShape(mon) /\ BootShape(boot) /\ IncShape(inc) BY DEF Shape
  <1>3. mon.st = "fetch" => mon.got.id \in Nat
    <2>1. mon.st = "fetch" => mon.got \in Published BY <1>0 DEF MonShape
    <2> QED BY <2>1 DEF Published
  <1>4. boot.st = "fetch" => boot.got.id \in Nat
    <2>1. boot.st = "fetch" => boot.got \in Published BY <1>0 DEF BootShape
    <2> QED BY <2>1 DEF Published
  <1>5. inc.st = "data" => inc.id \in Nat BY <1>0 DEF IncShape
  <1>6. ASSUME NEW n \in 1..Len(inbox), inbox[n].k # "con" PROVE inbox[n].id \in Nat
    <2>1. inbox[n] \in InMessages BY SeqElements DEF Shape
    <2> QED BY <1>6, <2>1 DEF InMessages
  <1>7. ASSUME NEW n \in 1..Len(out) PROVE out[n].id \in Nat
    <2>1. out[n] \in OutMessages BY SeqElements DEF Shape
    <2> QED BY <2>1 DEF OutMessages
  <1> QED BY <1>1, <1>2, <1>3, <1>4, <1>5, <1>6, <1>7

\* What publish_template does to the store and to the stream.
PublishedAs(ret, fut, t, isFuture) ==
    /\ IsRetained(held') /\ future' = (IF isFuture THEN t ELSE fut) /\ current' = t
    /\ throttled' \in BOOLEAN
    /\ out' = out \o IF isFuture THEN <<NewMsg(t, TRUE), PrevMsg(t)>> ELSE <<NewMsg(t, FALSE)>>
    /\ DOMAIN held' = DOMAIN ret \cup (IF isFuture THEN {} ELSE {t.id})
    /\ \A i \in DOMAIN ret :
          \/ ~isFuture /\ i = t.id
          \/ /\ held'[i].tip = ret[i].tip /\ held'[i].epoch = ret[i].epoch
             /\ held'[i].retired = "due" => ret[i].retired = "due"
    /\ ~isFuture => /\ held'[t.id].tip = t.tip /\ held'[t.id].epoch = t.epoch
                    /\ held'[t.id].retired # "due"

\* publish_template stores, applies the cap and sends.
LEMMA PublishEffect ==
    ASSUME NEW ret, IsRetained(ret), NEW fut \in Published \cup {NoTemplate}, NEW t \in Published,
           NEW isFuture \in BOOLEAN, NEW instant \in BOOLEAN, Shape,
           publish_template(Stored(ret, fut), t, isFuture, isFuture, instant)
    PROVE  PublishedAs(ret, fut, t, isFuture)
  <1> DEFINE put == IF isFuture THEN ret ELSE Put(ret, t.id, AsRetained(t, "no"))
             f == IF isFuture THEN t ELSE fut
  <1>1. store_template_data(Stored(ret, fut), t, isFuture) = Stored(put, f)
    BY DEF store_template_data, Stored
  <1>2. /\ IsRetained(put) /\ DOMAIN put = DOMAIN ret \cup (IF isFuture THEN {} ELSE {t.id})
        /\ \A i \in DOMAIN ret : (~isFuture /\ i = t.id) \/ put[i] = ret[i]
        /\ ~isFuture => put[t.id] = AsRetained(t, "no")
    BY DEF IsRetained, Retained, Put, AsRetained, Published
  <1> DEFINE kept == retire_templates_beyond_cap(Stored(put, f))
  <1>3. /\ IsRetained(kept.ret) /\ DOMAIN kept.ret = DOMAIN put /\ kept.fut = f
        /\ Ages(put, kept.ret)
    BY <1>2, CapKeepsShape
  <1>4. held' = kept.ret /\ future' = kept.fut /\ current' = t
        /\ throttled' = (throttled \/ instant)
        /\ out' = out \o IF isFuture THEN <<NewMsg(t, isFuture), PrevMsg(t)>> ELSE <<NewMsg(t, isFuture)>>
    BY <1>1 DEF publish_template
  <1> HIDE DEF put, f, kept
  <1>5. /\ future' = (IF isFuture THEN t ELSE fut) /\ throttled' \in BOOLEAN
        /\ out' = out \o IF isFuture THEN <<NewMsg(t, TRUE), PrevMsg(t)>> ELSE <<NewMsg(t, FALSE)>>
    BY <1>3, <1>4, Zenon DEF f, Shape
  <1>6. \A i \in DOMAIN ret :
           \/ ~isFuture /\ i = t.id
           \/ /\ held'[i].tip = ret[i].tip /\ held'[i].epoch = ret[i].epoch
              /\ held'[i].retired = "due" => ret[i].retired = "due"
    BY <1>2, <1>3, <1>4 DEF Ages
  <1>7. ~isFuture => /\ held'[t.id].tip = t.tip /\ held'[t.id].epoch = t.epoch
                     /\ held'[t.id].retired # "due"
    BY <1>2, <1>3, <1>4 DEF Ages, AsRetained
  <1> QED BY <1>2, <1>3, <1>4, <1>5, <1>6, <1>7, Zenon DEF PublishedAs

\* What the stream grows by: a template with its SetNewPrevHash, or alone.
LEMMA StreamGrows ==
    ASSUME NEW s \in Seq(OutMessages), NEW t \in Published
    PROVE  LET a == s \o <<NewMsg(t, TRUE), PrevMsg(t)>>
               r == s \o <<NewMsg(t, FALSE)>>
           IN  /\ a \in Seq(OutMessages) /\ Len(a) = Len(s) + 2
               /\ a[Len(s) + 1] = NewMsg(t, TRUE) /\ a[Len(s) + 2] = PrevMsg(t)
               /\ r \in Seq(OutMessages) /\ Len(r) = Len(s) + 1
               /\ r[Len(s) + 1] = NewMsg(t, FALSE)
               /\ r = Append(s, NewMsg(t, FALSE))
               /\ \A n \in 1..Len(s) : a[n] = s[n] /\ r[n] = s[n]
  <1>1. NewMsg(t, TRUE) \in OutMessages /\ NewMsg(t, FALSE) \in OutMessages /\ PrevMsg(t) \in OutMessages
    BY DEF NewMsg, PrevMsg, OutMessages, Published
  <1> DEFINE two == <<NewMsg(t, TRUE), PrevMsg(t)>>
             one == <<NewMsg(t, FALSE)>>
  <1>2. /\ two \in Seq(OutMessages) /\ Len(two) = 2
        /\ two[1] = NewMsg(t, TRUE) /\ two[2] = PrevMsg(t)
        /\ one \in Seq(OutMessages) /\ Len(one) = 1 /\ one[1] = NewMsg(t, FALSE)
    <2>1. \A x, y \in OutMessages : /\ <<x, y>> \in Seq(OutMessages) /\ Len(<<x, y>>) = 2
                                    /\ <<x, y>>[1] = x /\ <<x, y>>[2] = y
      OBVIOUS
    <2>2. \A x \in OutMessages : <<x>> \in Seq(OutMessages) /\ Len(<<x>>) = 1 /\ <<x>>[1] = x
      OBVIOUS
    <2> QED BY <1>1, <2>1, <2>2, Zenon
  <1>3. Len(s) \in Nat BY SeqElements
  <1>4. /\ s \o two \in Seq(OutMessages) /\ Len(s \o two) = Len(s) + Len(two)
        /\ \A i \in 1..Len(s) + Len(two) :
              (s \o two)[i] = IF i <= Len(s) THEN s[i] ELSE two[i - Len(s)]
        /\ s \o one \in Seq(OutMessages) /\ Len(s \o one) = Len(s) + Len(one)
        /\ \A i \in 1..Len(s) + Len(one) :
              (s \o one)[i] = IF i <= Len(s) THEN s[i] ELSE one[i - Len(s)]
    BY <1>2, SeqConcat, Zenon
  <1>5. s \o one = Append(s, NewMsg(t, FALSE)) BY <1>1, SeqConcat, Zenon
  <1> DEFINE a == s \o two
             r == s \o one
  <1>6. /\ Len(a) = Len(s) + 2
        /\ \A i \in 1..Len(s) + 2 : a[i] = IF i <= Len(s) THEN s[i] ELSE two[i - Len(s)]
        /\ Len(r) = Len(s) + 1
        /\ \A i \in 1..Len(s) + 1 : r[i] = IF i <= Len(s) THEN s[i] ELSE one[i - Len(s)]
    BY <1>2, <1>4, Zenon
  <1> HIDE DEF two, one, a, r
  <1>7. /\ a[Len(s) + 1] = two[1] /\ a[Len(s) + 2] = two[2] /\ r[Len(s) + 1] = one[1]
        /\ \A n \in 1..Len(s) : a[n] = s[n] /\ r[n] = s[n]
    BY <1>3, <1>6
  <1> QED BY <1>2, <1>4, <1>5, <1>6, <1>7, Zenon DEF two, one, a, r

\* Whoever publishes, what was known stays published.
LEMMA NamedLater ==
    ASSUME Shape, NamedPublished, NEW t \in Published, current.id < t.id, current' = t,
           UNCHANGED <<inbox, user>>, inc' = inc \/ inc'.st # "data",
           \/ out' = out \o <<NewMsg(t, TRUE), PrevMsg(t)>>
           \/ out' = out \o <<NewMsg(t, FALSE)>>
    PROVE  NamedPublished' /\ out' \in Seq(OutMessages)
  <1>1. t.id \in Nat BY BoundsAssumption DEF Published
  <1>2. out \in Seq(OutMessages) /\ Len(out) \in Nat BY SeqElements DEF Shape
  <1>3. /\ out' \in Seq(OutMessages)
        /\ \A n \in 1..Len(out') : (n \in 1..Len(out) /\ out'[n] = out[n]) \/ out'[n].id = t.id
    <2>1. CASE out' = out \o <<NewMsg(t, TRUE), PrevMsg(t)>>
      <3>1. /\ out' \in Seq(OutMessages) /\ Len(out') = Len(out) + 2
            /\ out'[Len(out) + 1] = NewMsg(t, TRUE) /\ out'[Len(out) + 2] = PrevMsg(t)
            /\ \A n \in 1..Len(out) : out'[n] = out[n]
        BY <1>2, <2>1, StreamGrows, Zenon
      <3>2. NewMsg(t, TRUE).id = t.id /\ PrevMsg(t).id = t.id BY DEF NewMsg, PrevMsg
      <3>3. \A n \in 1..Len(out') : n \in 1..Len(out) \/ n = Len(out) + 1 \/ n = Len(out) + 2
        BY <1>2, <3>1
      <3> QED BY <3>1, <3>2, <3>3, Zenon
    <2>2. CASE out' = out \o <<NewMsg(t, FALSE)>>
      <3>1. /\ out' \in Seq(OutMessages) /\ Len(out') = Len(out) + 1
            /\ out'[Len(out) + 1] = NewMsg(t, FALSE)
            /\ \A n \in 1..Len(out) : out'[n] = out[n]
        BY <1>2, <2>2, StreamGrows, Zenon
      <3>2. NewMsg(t, FALSE).id = t.id BY DEF NewMsg
      <3>3. \A n \in 1..Len(out') : n \in 1..Len(out) \/ n = Len(out) + 1 BY <1>2, <3>1
      <3> QED BY <3>1, <3>2, <3>3, Zenon
    <2> QED BY <2>1, <2>2, Zenon
  <1>4. \A n \in 1..Len(out') : out'[n].id <= t.id
    <2>1. \A n \in 1..Len(out) : out[n].id \in Nat /\ out[n].id <= current.id /\ current.id \in Nat
      BY Ids DEF NamedPublished
    <2> SUFFICES ASSUME NEW n \in 1..Len(out') PROVE out'[n].id <= t.id OBVIOUS
    <2>2. CASE n \in 1..Len(out) /\ out'[n] = out[n]
      <3>1. out'[n].id \in Nat /\ out'[n].id <= current.id /\ current.id \in Nat BY <2>1, <2>2
      <3> QED BY <1>1, <3>1
    <2>3. CASE out'[n].id = t.id BY <1>1, <2>3
    <2> QED BY <1>3, <2>2, <2>3
  <1>5. /\ user'.future <= t.id /\ \A j \in user'.jobs : j <= t.id
        /\ inc'.st = "data" => inc'.id <= t.id
    BY <1>1, Ids, SMTT(30) DEF NamedPublished
  <1>6. \A n \in 1..Len(inbox') : inbox'[n].k # "con" => inbox'[n].id <= t.id
    BY <1>1, Ids, SMTT(30) DEF NamedPublished
  <1> QED BY <1>3, <1>4, <1>5, <1>6 DEF NamedPublished

\* A bootstrap creates, fetches and publishes while no monitor runs.
LEMMA FlowBoot ==
    ASSUME FlowInv, BootCreated \/ BootPublish \/ BootAbandoned
    PROVE  FlowInv'
  <1> USE BoundsAssumption
  <1>1. CASE BootCreated
    <2>1. FetchedTemplate(boot.epoch) \in Published
      BY <1>1 DEF FlowInv, Shape, BootCreated, FetchedTemplate, Published, BootShape
    <2>2. BootShape(boot') /\ boot'.st = "fetch" /\ boot'.got.id = nextId
      BY <1>1, <2>1 DEF FlowInv, Shape, BootCreated, BootShape, FetchedTemplate
    <2>3. Shape' BY <1>1, <2>2 DEF FlowInv, Shape, BootCreated, wire, userVars
    <2>4. OnePublisher' BY <1>1, <2>2, Ids DEF FlowInv, OnePublisher, BootCreated
    <2>5. NamedPublished' BY <1>1 DEF FlowInv, NamedPublished, BootCreated, wire, userVars
    <2> QED BY <2>3, <2>4, <2>5 DEF FlowInv
  <1>2. CASE BootPublish
    <2>0. Shape /\ NamedPublished /\ IsRetained(held) /\ future \in Published \cup {NoTemplate}
      BY DEF FlowInv, Shape
    <2>1. boot.got \in Published /\ current.id < boot.got.id /\ boot.got.id < nextId
      BY <1>2 DEF FlowInv, Shape, OnePublisher, BootPublish, BootShape
    <2>2. publish_template(Stored(held, future), boot.got, TRUE, TRUE, TRUE) BY <1>2, Zenon DEF BootPublish
    <2>3. /\ IsRetained(held') /\ future' = boot.got /\ current' = boot.got /\ throttled' \in BOOLEAN
          /\ out' = out \o <<NewMsg(boot.got, TRUE), PrevMsg(boot.got)>>
      <3>1. PublishedAs(held, future, boot.got, TRUE) BY <2>0, <2>1, <2>2, PublishEffect, Zenon
      <3> QED BY <3>1 DEF PublishedAs
    <2>4. NamedPublished' /\ out' \in Seq(OutMessages)
      BY <1>2, <2>0, <2>1, <2>3, NamedLater, Zenon DEF BootPublish, userVars
    <2>5. Shape'
      BY <1>2, <2>1, <2>3, <2>4, Zenon
         DEF FlowInv, Shape, BootPublish, SpawnMonitor, Off, MonShape, IncShape, BootShape, userVars
    <2>6. boot.got # NoTemplate BY <2>1 DEF Published, NoTemplate
    <2>7. OnePublisher'
      <3>1. /\ boot'.st = "off" /\ mon'.st = "thread" /\ nextId' = nextId /\ phase' # "first"
        <4>1. boot.st = "fetch" /\ mon' = [st |-> "thread"] /\ boot' = [st |-> "off"] /\ nextId' = nextId
              /\ phase' \in {"run", phase}
          BY <1>2, Zenon DEF BootPublish, SpawnMonitor, Off
        <4>2. phase # "first" BY <4>1, Zenon DEF FlowInv, OnePublisher
        <4> QED BY <4>1, <4>2
      <3> QED BY <2>1, <2>3, <2>6, <3>1, Zenon DEF OnePublisher
    <2> QED BY <2>4, <2>5, <2>7 DEF FlowInv
  <1>3. CASE BootAbandoned
    <2>1. Shape'
      <3>1. /\ boot' = Off /\ cancelled' = TRUE /\ phase' \in {"done", phase} /\ inc' \in {inc, [st |-> "exit"]}
            /\ UNCHANGED <<coreTip, monStop, mon, handle, due, store, wire, userVars>>
        BY <1>3, Zenon DEF BootAbandoned
      <3>2. BootShape(boot') BY <3>1, Zenon DEF Off, BootShape
      <3>3. IncShape([st |-> "exit"]) BY Zenon DEF IncShape
      <3>4. IncShape(inc') BY <3>1, <3>3, Zenon DEF FlowInv, Shape
      <3>5. phase' \in {"first", "boot", "run", "drain", "done"} BY <3>1, Zenon DEF FlowInv, Shape
      <3> QED BY <3>1, <3>2, <3>4, <3>5, Zenon DEF FlowInv, Shape, store, wire, userVars
    <2>2. OnePublisher' BY <1>3 DEF FlowInv, OnePublisher, BootAbandoned, store, Off
    <2>3. NamedPublished' BY <1>3 DEF FlowInv, NamedPublished, BootAbandoned, store, wire, userVars
    <2> QED BY <2>1, <2>2, <2>3 DEF FlowInv
  <1> QED BY <1>1, <1>2, <1>3

\* run() takes the first constraints, or is cancelled.
LEMMA FlowRun ==
    ASSUME FlowInv, RunFirst \/ RunCancelled
    PROVE  FlowInv'
  <1>1. CASE RunFirst
    <2>1. /\ inbox' \in Seq(InMessages) /\ Head(inbox) \in InMessages
          /\ Len(inbox') = Len(inbox) - 1
          /\ \A n \in 1..Len(inbox') : inbox'[n] = inbox[n + 1]
      <3>1. inbox \in Seq(InMessages) BY Zenon DEF FlowInv, Shape
      <3> QED BY <1>1, <3>1, SeqRead DEF RunFirst
    <2>2. BootShape(boot') /\ boot'.st \in {"off", "create"}
      <3>1. BootShape(boot) /\ boot.st = "off"
        BY <1>1, Zenon DEF FlowInv, Shape, OnePublisher, RunFirst
      <3> QED BY <1>1, <2>1, <3>1 DEF RunFirst, StartBoot, BootShape, InMessages
    <2>3. NamedPublished'
      <3>1. inbox \in Seq(InMessages) /\ NamedPublished BY Zenon DEF FlowInv, Shape
      <3>2. UNCHANGED <<inc, out, current, user>> BY <1>1, Zenon DEF RunFirst, store, userVars
      <3>3. \A n \in 1..Len(inbox') : inbox'[n].k # "con" => inbox'[n].id <= current.id
        BY <2>1, <3>1 DEF NamedPublished
      <3> QED BY <3>1, <3>2, <3>3, Zenon DEF NamedPublished
    <2> QED BY <1>1, <2>1, <2>2, <2>3 DEF FlowInv, Shape, OnePublisher, RunFirst, store, userVars
  <1>2. CASE RunCancelled
    <2>1. Shape' BY <1>2, Zenon DEF FlowInv, Shape, RunCancelled, store, wire, userVars
    <2>2. OnePublisher' BY <1>2 DEF FlowInv, OnePublisher, RunCancelled, store
    <2>3. NamedPublished' BY <1>2 DEF FlowInv, NamedPublished, RunCancelled, store, wire, userVars
    <2> QED BY <2>1, <2>2, <2>3 DEF FlowInv
  <1> QED BY <1>1, <1>2

\* The monitor's thread, from its start to the template it publishes.
LEMMA FlowMonitor ==
    ASSUME FlowInv,
           MonThread \/ MonTimeout \/ MonWaitNext \/ MonPublish \/ MonFailed \/ MonStopped
    PROVE  FlowInv'
  <1> USE BoundsAssumption
  <1>1. CASE MonThread \/ MonTimeout
    <2>1. MonShape(mon') /\ mon'.st = "wait" /\ mon'.base.epoch = current.epoch
          /\ mon.st \in {"thread", "wait"}
      <3>1. /\ mon.st \in {"thread", "wait"} /\ throttled \in BOOLEAN
            /\ mon.st = "thread" => current \in Published /\ mon' = Waiting(current, throttled)
            /\ mon.st = "wait" => /\ mon.base \in Published /\ mon.base.epoch = current.epoch
                                  /\ mon' = Waiting(mon.base, throttled)
        BY <1>1, Zenon DEF FlowInv, Shape, OnePublisher, MonThread, MonTimeout, MonShape
      <3> QED BY <3>1 DEF Waiting, MonShape
    <2>2. Shape' BY <1>1, <2>1, Zenon DEF FlowInv, Shape, MonThread, MonTimeout, store, wire, userVars
    <2>3. OnePublisher'
      <3>1. OnePublisher /\ UNCHANGED <<phase, boot, current, nextId>>
        BY <1>1, Zenon DEF FlowInv, MonThread, MonTimeout, store
      <3> QED BY <2>1, <3>1 DEF OnePublisher
    <2>4. NamedPublished'
      BY <1>1, Zenon DEF FlowInv, NamedPublished, MonThread, MonTimeout, store, wire, userVars
    <2> QED BY <2>2, <2>3, <2>4 DEF FlowInv
  <1>2. CASE MonWaitNext
    <2>1. mon.base \in Published /\ mon.base.epoch = current.epoch
      BY <1>2 DEF FlowInv, Shape, OnePublisher, MonWaitNext, MonShape
    <2>2. FetchedTemplate(mon.base.epoch) \in Published
      <3>1. mon.base.epoch \in 1..MaxEpoch BY <2>1 DEF Published
      <3>2. nextId \in 1..MaxId /\ coreTip \in 1..MaxTip BY <1>2 DEF FlowInv, Shape, MonWaitNext
      <3> QED BY <3>1, <3>2 DEF FetchedTemplate, Published
    <2>3. /\ MonShape(mon') /\ mon'.st = "fetch" /\ mon'.got.id = nextId
          /\ mon'.got.epoch = current.epoch
      BY <1>2, <2>1, <2>2 DEF MonWaitNext, MonShape, FetchedTemplate
    <2>4. Shape' BY <1>2, <2>3 DEF FlowInv, Shape, MonWaitNext, wire, userVars
    <2>5. OnePublisher'
      <3>1. OnePublisher /\ UNCHANGED <<phase, boot, current>> /\ nextId' = nextId + 1 /\ mon.st = "wait"
        BY <1>2, Zenon DEF FlowInv, MonWaitNext
      <3>2. boot.st = "off" /\ phase # "first" /\ current # NoTemplate
        BY <3>1, Zenon DEF OnePublisher
      <3>3. current.id < nextId /\ nextId < nextId' /\ current.id < nextId'
        <4>1. current.id \in Nat /\ nextId \in Nat BY Ids, Zenon DEF FlowInv
        <4>2. current.id < nextId /\ nextId' = nextId + 1 BY <3>1, Zenon DEF OnePublisher
        <4> QED BY <4>1, <4>2
      <3> QED BY <2>3, <3>1, <3>2, <3>3, Zenon DEF OnePublisher
    <2>6. NamedPublished' BY <1>2, ZenonT(20) DEF FlowInv, NamedPublished, MonWaitNext, wire, userVars
    <2> QED BY <2>4, <2>5, <2>6 DEF FlowInv
  <1>3. CASE MonPublish
    <2>1. mon.got \in Published /\ current.id < mon.got.id /\ mon.got.id < nextId
      BY <1>3, Zenon DEF FlowInv, Shape, OnePublisher, MonPublish, MonShape
    <2>0. Shape /\ NamedPublished /\ IsRetained(held) /\ future \in Published \cup {NoTemplate}
      BY DEF FlowInv, Shape
    <2>2. /\ IsRetained(held') /\ future' \in Published \cup {NoTemplate} /\ current' = mon.got
          /\ throttled' \in BOOLEAN
          /\ \/ out' = out \o <<NewMsg(mon.got, TRUE), PrevMsg(mon.got)>>
             \/ out' = out \o <<NewMsg(mon.got, FALSE)>>
      <3>1. CASE TipMoved(mon.got)
        <4> DEFINE r == retire_all_templates(Stored(held, future))
        <4>1. IsRetained(r.ret) /\ r.fut = NoTemplate BY <2>0, RetireAllKeeps
        <4>2. r = Stored(r.ret, r.fut) BY DEF retire_all_templates, Stored
        <4>3. publish_template(Stored(r.ret, r.fut), mon.got, TRUE, TRUE, FALSE)
          BY <1>3, <3>1, <4>2, Zenon DEF MonPublish
        <4>4. r.fut \in Published \cup {NoTemplate} BY <4>1
        <4> HIDE DEF r
        <4>5. PublishedAs(r.ret, r.fut, mon.got, TRUE) BY <2>0, <2>1, <4>1, <4>3, <4>4, PublishEffect, Zenon
        <4> QED BY <2>1, <4>5 DEF PublishedAs
      <3>2. CASE ~TipMoved(mon.got)
        <4>1. publish_template(Stored(held, future), mon.got, FALSE, FALSE, TRUE)
          BY <1>3, <3>2, Zenon DEF MonPublish
        <4>2. PublishedAs(held, future, mon.got, FALSE) BY <2>0, <2>1, <4>1, PublishEffect, Zenon
        <4> QED BY <2>0, <4>2, Zenon DEF PublishedAs
      <3> QED BY <3>1, <3>2, Zenon
    <2>3. MonShape(mon') /\ mon'.st = "wait" /\ mon'.base = mon.got
      BY <1>3, <2>1, Zenon DEF MonPublish, Waiting, MonShape
    <2>4. NamedPublished' /\ out' \in Seq(OutMessages)
      BY <1>3, <2>0, <2>1, <2>2, NamedLater, Zenon DEF MonPublish, userVars
    <2>5. Shape' BY <1>3, <2>1, <2>2, <2>3, <2>4, Zenon DEF FlowInv, Shape, MonPublish, userVars
    <2>6. mon.got # NoTemplate /\ boot.st # "fetch"
      <3>1. mon.got # NoTemplate BY <2>1 DEF Published, NoTemplate
      <3> QED BY <1>3, <3>1, Zenon DEF FlowInv, OnePublisher, MonPublish
    <2>7. OnePublisher'
      BY <1>3, <2>1, <2>2, <2>3, <2>6, Zenon DEF FlowInv, OnePublisher, MonPublish
    <2> QED BY <2>4, <2>5, <2>7 DEF FlowInv
  <1>4. CASE MonFailed \/ MonStopped
    <2>1. Shape'
      <3>1. MonShape(mon') BY <1>4 DEF MonFailed, MonStopped, MonShape
      <3> QED BY <1>4, <3>1, Zenon DEF FlowInv, Shape, MonFailed, MonStopped, store, wire, userVars
    <2>2. OnePublisher'
      <3>1. mon' = [st |-> "exit"] /\ UNCHANGED <<phase, boot, current, nextId>>
        BY <1>4, Zenon DEF MonFailed, MonStopped, store
      <3>2. mon'.st = "exit" BY <3>1
      <3>3. phase # "first"
        BY <1>4, Zenon DEF FlowInv, OnePublisher, MonFailed, MonStopped, MonMayStop
      <3> QED BY <3>1, <3>2, <3>3, Zenon DEF FlowInv, OnePublisher
    <2>3. NamedPublished'
      BY <1>4, Zenon DEF FlowInv, NamedPublished, MonFailed, MonStopped, store, wire, userVars
    <2> QED BY <2>1, <2>2, <2>3 DEF FlowInv
  <1> QED BY <1>1, <1>2, <1>3, <1>4

\* An answer to RequestTransactionData joins the stream.
LEMMA StreamAnswers ==
    ASSUME NEW s \in Seq(OutMessages), NEW id \in 1..MaxId, NEW ok \in BOOLEAN
    PROVE  LET a == Append(s, DataMsg(id, ok))
           IN  /\ a \in Seq(OutMessages) /\ Len(a) = Len(s) + 1
               /\ a[Len(s) + 1] = DataMsg(id, ok)
               /\ \A n \in 1..Len(s) : a[n] = s[n]
  <1>1. DataMsg(id, ok) \in OutMessages BY DEF DataMsg, OutMessages
  <1> HIDE DEF OutMessages
  <1> QED BY <1>1, SeqAppend

\* An answer names a template that was published.
LEMMA AnswerNames ==
    ASSUME FlowInv, NEW id \in 1..MaxId, NEW ok \in BOOLEAN, id <= current.id,
           out' = Append(out, DataMsg(id, ok))
    PROVE  out' \in Seq(OutMessages) /\ \A n \in 1..Len(out') : out'[n].id <= current.id
  <1>1. out \in Seq(OutMessages) /\ Len(out) \in Nat BY SeqElements DEF FlowInv, Shape
  <1>2. /\ out' \in Seq(OutMessages) /\ Len(out') = Len(out) + 1
        /\ out'[Len(out) + 1] = DataMsg(id, ok)
        /\ \A n \in 1..Len(out) : out'[n] = out[n]
    BY <1>1, StreamAnswers
  <1>3. DataMsg(id, ok).id = id BY DEF DataMsg
  <1>4. \A n \in 1..Len(out') : n \in 1..Len(out) \/ n = Len(out) + 1 BY <1>1, <1>2
  <1>5. \A n \in 1..Len(out) : out[n].id <= current.id BY DEF FlowInv, NamedPublished
  <1> QED BY <1>2, <1>3, <1>4, <1>5

\* The messages of the user are answered under what is published.
LEMMA FlowIncoming ==
    ASSUME FlowInv,
           IncReceive \/ IncJoined \/ IncData \/ IncSubmitted \/ IncFailed \/ IncStopped
    PROVE  FlowInv'
  <1>1. CASE IncReceive
    <2> DEFINE m == Head(inbox)
    <2>1. /\ inbox' \in Seq(InMessages) /\ m \in InMessages /\ m = inbox[1] /\ Len(inbox) >= 1
          /\ Len(inbox') = Len(inbox) - 1
          /\ \A n \in 1..Len(inbox') : inbox'[n] = inbox[n + 1]
      BY <1>1, SeqRead DEF FlowInv, Shape, IncReceive
    <2>2. m.k # "con" => m.id \in 1..MaxId /\ m.id <= current.id
      BY <2>1 DEF FlowInv, NamedPublished, InMessages
    <2>3. \A n \in 1..Len(inbox') : inbox'[n].k # "con" => inbox'[n].id <= current.id
      BY <2>1 DEF FlowInv, NamedPublished
    <2>4. /\ IncShape(inc') /\ (inc'.st = "data" => inc'.id <= current.id)
          /\ monStop' \in BOOLEAN /\ handle' \in BOOLEAN /\ lost' \in BOOLEAN
          /\ \/ out' = out
             \/ m.k = "data" /\ out' = Append(out, DataMsg(m.id, FALSE))
      <3>1. /\ inc.st = "idle" /\ monStop \in BOOLEAN /\ handle \in BOOLEAN /\ lost \in BOOLEAN
            /\ IncShape(inc)
        BY <1>1 DEF FlowInv, Shape, IncReceive
      <3>2. m.k \in {"con", "data", "sol"} /\ (m.k = "con" => m.epoch \in 1..MaxEpoch)
        BY <2>1 DEF InMessages
      <3>3. CASE m.k = "con"
        <4>1. handle_coinbase_output_constraints(m) BY <1>1, <3>3, Zenon DEF IncReceive
        <4> HIDE DEF m
        <4> QED BY <3>1, <3>2, <3>3, <4>1, Zenon DEF handle_coinbase_output_constraints, IncShape
      <3>4. CASE m.k = "data"
        <4>1. handle_request_transaction_data(m) BY <1>1, <3>4, Zenon DEF IncReceive
        <4> HIDE DEF m
        <4>2. /\ \/ inc' = [st |-> "data", id |-> m.id] /\ out' = out
                 \/ inc' = inc /\ out' = Append(out, DataMsg(m.id, FALSE))
              /\ monStop' = monStop /\ handle' = handle /\ lost' = lost
          BY <4>1, Zenon DEF handle_request_transaction_data
        <4>3. IncShape(inc') /\ (inc'.st = "data" => inc'.id <= current.id)
          <5>1. CASE inc' = inc BY <3>1, <5>1 DEF IncShape
          <5>2. CASE inc' = [st |-> "data", id |-> m.id]
            <6>1. m.id \in 1..MaxId /\ m.id <= current.id BY <2>2, <3>4
            <6> QED BY <5>2, <6>1 DEF IncShape
          <5> QED BY <4>2, <5>1, <5>2, Zenon
        <4> QED BY <3>1, <3>4, <4>2, <4>3, Zenon
      <3>5. CASE m.k = "sol"
        <4>1. handle_submit_solution(m) BY <1>1, <3>5, Zenon DEF IncReceive
        <4> HIDE DEF m
        <4>2. /\ \/ inc' = inc /\ lost' = TRUE
                 \/ inc' = [st |-> "submit"] /\ lost' = lost
              /\ monStop' = monStop /\ handle' = handle /\ out' = out
          BY <4>1, Zenon DEF handle_submit_solution
        <4>3. IncShape(inc') /\ (inc'.st = "data" => inc'.id <= current.id)
          BY <3>1, <4>2 DEF IncShape
        <4> QED BY <3>1, <4>2, <4>3, Zenon
      <3> QED BY <3>2, <3>3, <3>4, <3>5, Zenon
    <2>5. out' \in Seq(OutMessages) /\ \A n \in 1..Len(out') : out'[n].id <= current.id
      <3>1. CASE out' = out BY <3>1 DEF FlowInv, Shape, NamedPublished
      <3>2. CASE out' # out BY <2>2, <2>4, <3>2, AnswerNames, Zenon
      <3> QED BY <3>1, <3>2
    <2> HIDE DEF m
    <2>6. Shape' BY <1>1, <2>1, <2>4, <2>5 DEF FlowInv, Shape, IncReceive, store
    <2>7. OnePublisher' BY <1>1 DEF FlowInv, OnePublisher, IncReceive, store
    <2>8. NamedPublished'
      BY <1>1, <2>3, <2>4, <2>5 DEF FlowInv, NamedPublished, IncReceive, store
    <2> QED BY <2>6, <2>7, <2>8 DEF FlowInv
  <1>2. CASE IncJoined
    <2>1. IsRetained(held') /\ future' = NoTemplate
      BY <1>2, RetireAllKeeps, Zenon DEF FlowInv, Shape, IncJoined
    <2>2. BootShape(boot') /\ boot'.st = "create" /\ IncShape(inc') /\ inc'.st = "boot"
      BY <1>2, ZenonT(20) DEF FlowInv, Shape, IncJoined, StartBoot, BootShape, IncShape
    <2>3. Shape' BY <1>2, <2>1, <2>2, Zenon DEF FlowInv, Shape, IncJoined, wire, userVars
    <2>4. OnePublisher' BY <1>2, <2>2, Zenon DEF FlowInv, OnePublisher, IncJoined, MonitorEnded
    <2>5. NamedPublished' BY <1>2, <2>2, ZenonT(20) DEF FlowInv, NamedPublished, IncJoined, wire, userVars
    <2> QED BY <2>3, <2>4, <2>5 DEF FlowInv
  <1>3. CASE IncData
    <2>1. inc.id \in 1..MaxId /\ inc.id <= current.id
      BY <1>3 DEF FlowInv, Shape, NamedPublished, IncData, IncShape
    <2>2. out' \in Seq(OutMessages) /\ \A n \in 1..Len(out') : out'[n].id <= current.id
      BY <1>3, <2>1, AnswerNames, Zenon DEF IncData
    <2>3. IncShape(inc') /\ inc'.st = "idle" BY <1>3 DEF IncData, IncShape
    <2>4. Shape' BY <1>3, <2>2, <2>3, Zenon DEF FlowInv, Shape, IncData, store, userVars
    <2>5. OnePublisher' BY <1>3, ZenonT(20) DEF FlowInv, OnePublisher, IncData, store
    <2>6. NamedPublished' BY <1>3, <2>2, <2>3, Zenon DEF FlowInv, NamedPublished, IncData, store, userVars
    <2> QED BY <2>4, <2>5, <2>6 DEF FlowInv
  <1>4. CASE IncSubmitted \/ IncFailed \/ IncStopped
    <2>1. IncShape(inc') /\ inc'.st \in {"idle", "exit"}
      BY <1>4 DEF IncSubmitted, IncFailed, IncStopped, IncShape
    <2>2. Shape'
      BY <1>4, <2>1, Zenon DEF FlowInv, Shape, IncSubmitted, IncFailed, IncStopped, store, wire, userVars
    <2>3. OnePublisher' BY <1>4, ZenonT(20) DEF FlowInv, OnePublisher, IncSubmitted, IncFailed, IncStopped, store
    <2>4. NamedPublished'
      BY <1>4, <2>1, Zenon DEF FlowInv, NamedPublished, IncSubmitted, IncFailed, IncStopped, store, wire, userVars
    <2> QED BY <2>2, <2>3, <2>4 DEF FlowInv
  <1> QED BY <1>1, <1>2, <1>3, <1>4

\* The sweep, the destruction of what it took out, and the clock behind it.
LEMMA FlowRetirement ==
    ASSUME FlowInv, Sweep \/ Destroy \/ DestroyFailed \/ GraceOver
    PROVE  FlowInv'
  <1>1. IsRetained(held') /\ due' \in SUBSET (1..MaxId)
    <2>0. IsRetained(held) /\ due \in SUBSET (1..MaxId) BY DEF FlowInv, Shape
    <2>1. CASE Sweep BY <2>0, <2>1 DEF Sweep, IsRetained
    <2>2. CASE Destroy BY <2>0, <2>2, Zenon DEF Destroy, store
    <2>3. CASE DestroyFailed BY <2>0, <2>3 DEF DestroyFailed, store
    <2>4. CASE GraceOver
      <3>1. due' = due /\ DOMAIN held' = DOMAIN held BY <2>4 DEF GraceOver, runtime
      <3>2. ASSUME NEW i \in DOMAIN held PROVE held'[i] \in Retained
        BY <2>0, <2>4, Zenon DEF GraceOver, IsRetained, Retained
      <3>3. held' = [i \in DOMAIN held' |-> held'[i]] BY <2>4 DEF GraceOver
      <3> QED BY <2>0, <3>1, <3>2, <3>3 DEF IsRetained
    <2> QED BY <2>1, <2>2, <2>3, <2>4
  <1>2. UNCHANGED <<coreTip, phase, monStop, mon, handle, inc, boot, future, current, nextId, throttled,
                    inbox, out, user, nextEpoch, lost>> /\ cancelled' \in BOOLEAN
    BY Zenon DEF FlowInv, Shape, Sweep, Destroy, DestroyFailed, GraceOver, runtime, store, wire, userVars
  <1>3. Shape' BY <1>1, <1>2 DEF FlowInv, Shape
  <1>4. OnePublisher' BY <1>2 DEF FlowInv, OnePublisher
  <1>5. NamedPublished' BY <1>2 DEF FlowInv, NamedPublished
  <1> QED BY <1>3, <1>4, <1>5 DEF FlowInv

\* The chain, the clock and the user.
LEMMA FlowUser ==
    ASSUME FlowInv,
           NewTip \/ IntervalOver \/ Shutdown \/ UserRead \/ UserConstrains \/ UserAsks
    PROVE  FlowInv'
  <1> USE BoundsAssumption
  <1>1. CASE NewTip \/ IntervalOver \/ Shutdown
    <2>1. /\ UNCHANGED <<phase, monStop, mon, handle, inc, boot, due, held, future, current, nextId,
                          inbox, out, user, nextEpoch, lost>>
          /\ cancelled' \in BOOLEAN /\ throttled' \in BOOLEAN /\ coreTip' \in 1..MaxTip
      <3>0. coreTip \in 1..MaxTip /\ cancelled \in BOOLEAN /\ throttled \in BOOLEAN
        BY DEF FlowInv, Shape
      <3>1. CASE NewTip
        <4>1. coreTip' \in 1..MaxTip BY <3>0, <3>1 DEF NewTip
        <4> QED BY <3>0, <3>1, <4>1, Zenon DEF NewTip, runtime, store, wire, userVars
      <3>2. CASE IntervalOver BY <3>0, <3>2, Zenon DEF IntervalOver, runtime, wire, userVars
      <3>3. CASE Shutdown BY <3>0, <3>3, ZenonT(20) DEF Shutdown, store, wire, userVars
      <3> QED BY <1>1, <3>1, <3>2, <3>3
    <2>2. Shape' BY <2>1, ZenonT(20) DEF FlowInv, Shape
    <2>3. OnePublisher' BY <2>1 DEF FlowInv, OnePublisher
    <2>4. NamedPublished' BY <2>1 DEF FlowInv, NamedPublished
    <2> QED BY <2>2, <2>3, <2>4 DEF FlowInv
  <1>2. CASE UserRead
    <2> DEFINE m == Head(out)
    <2>1. /\ out' \in Seq(OutMessages) /\ m \in OutMessages /\ m = out[1] /\ Len(out) \in Nat \ {0}
          /\ Len(out') = Len(out) - 1
          /\ \A n \in 1..Len(out') : out'[n] = out[n + 1]
      BY <1>2, SeqRead DEF FlowInv, Shape, UserRead
    <2>2. m.id \in 1..MaxId /\ m.id <= current.id
      <3>1. 1 \in 1..Len(out) BY <2>1
      <3>2. out[1].id <= current.id BY <3>1, Zenon DEF FlowInv, NamedPublished
      <3>3. out[1] \in OutMessages /\ m = out[1] BY <2>1, Zenon
      <3> HIDE DEF m
      <3>4. m.id \in 1..MaxId BY <3>3, Zenon DEF OutMessages
      <3> QED BY <3>2, <3>3, <3>4, Zenon
    <2>3. \A n \in 1..Len(out') : out'[n].id <= current.id
      <3>1. \A n \in 1..Len(out') : n + 1 \in 1..Len(out) BY <2>1, OneLess, Zenon
      <3> QED BY <2>1, <3>1, Zenon DEF FlowInv, NamedPublished
    <2>4. \/ user' = [user EXCEPT !.jobs = Newest(user.jobs \union {m.id})]
          \/ user' = [future |-> m.id, jobs |-> {}]
          \/ user' = user
      BY <1>2 DEF UserRead
    <2>5. /\ user' \in [future : 0..MaxId, jobs : SUBSET (1..MaxId)]
          /\ user'.future <= current.id /\ \A j \in user'.jobs : j <= current.id
      <3>1. user \in [future : 0..MaxId, jobs : SUBSET (1..MaxId)] BY DEF FlowInv, Shape
      <3>2. user.future <= current.id /\ \A j \in user.jobs : j <= current.id
        BY DEF FlowInv, NamedPublished
      <3>3. Newest(user.jobs \union {m.id}) \in SUBSET (user.jobs \union {m.id}) BY DEF Newest
      <3> HIDE DEF m
      <3>4. CASE user' = [user EXCEPT !.jobs = Newest(user.jobs \union {m.id})]
        BY <2>2, <3>1, <3>2, <3>3, <3>4
      <3>5. CASE user' = [future |-> m.id, jobs |-> {}]
        BY <2>2, <3>5
      <3> QED BY <2>4, <3>1, <3>2, <3>4, <3>5
    <2> HIDE DEF m
    <2>6. Shape' BY <1>2, <2>1, <2>5, Zenon DEF FlowInv, Shape, UserRead, runtime, store
    <2>7. OnePublisher' BY <1>2 DEF FlowInv, OnePublisher, UserRead, runtime, store
    <2>8. NamedPublished' BY <1>2, <2>3, <2>5, Zenon DEF FlowInv, NamedPublished, UserRead, runtime, store
    <2> QED BY <2>6, <2>7, <2>8 DEF FlowInv
  <1>3. ASSUME NEW m \in InMessages, UserSends(m), m.k # "con" => m.id <= current.id,
               nextEpoch' \in 1..MaxEpoch + 1
        PROVE  FlowInv'
    <2>1. /\ inbox' \in Seq(InMessages) /\ Len(inbox') = Len(inbox) + 1
          /\ inbox'[Len(inbox) + 1] = m
          /\ \A n \in 1..Len(inbox) : inbox'[n] = inbox[n]
      BY <1>3, SeqAppend DEF FlowInv, Shape, UserSends
    <2>2. \A n \in 1..Len(inbox') : inbox'[n].k # "con" => inbox'[n].id <= current.id
      <3>1. Len(inbox) \in Nat BY SeqElements DEF FlowInv, Shape
      <3>2. \A n \in 1..Len(inbox') : n \in 1..Len(inbox) \/ n = Len(inbox) + 1 BY <2>1, <3>1
      <3>3. \A n \in 1..Len(inbox) : inbox[n].k # "con" => inbox[n].id <= current.id
        BY DEF FlowInv, NamedPublished
      <3> QED BY <1>3, <2>1, <3>2, <3>3
    <2>3. Shape' BY <1>3, <2>1, Zenon DEF FlowInv, Shape, UserSends, runtime, store
    <2>4. OnePublisher' BY <1>3, Zenon DEF FlowInv, OnePublisher, UserSends, runtime, store
    <2>5. NamedPublished' BY <1>3, <2>2, Zenon DEF FlowInv, NamedPublished, UserSends, runtime, store
    <2> QED BY <2>3, <2>4, <2>5 DEF FlowInv
  <1>4. CASE UserConstrains
    <2> DEFINE m == [k |-> "con", epoch |-> nextEpoch]
    <2>1. nextEpoch \in 1..MaxEpoch + 1 BY DEF FlowInv, Shape
    <2>2. m \in InMessages /\ m.k = "con" /\ nextEpoch' \in 1..MaxEpoch + 1
      BY <1>4, <2>1 DEF UserConstrains, InMessages
    <2>3. UserSends(m) BY <1>4 DEF UserConstrains
    <2> HIDE DEF m
    <2> QED BY <1>3, <2>2, <2>3
  <1>5. CASE UserAsks
    <2>1. PICK id \in ({user.future} \union user.jobs) \ {0}, k \in {"data", "sol"} :
            UserSends([k |-> k, id |-> id]) /\ UNCHANGED nextEpoch
      BY <1>5 DEF UserAsks
    <2> DEFINE m == [k |-> k, id |-> id]
    <2>2. id \in 1..MaxId /\ nextEpoch' \in 1..MaxEpoch + 1 BY <2>1 DEF FlowInv, Shape
    <2>3. id <= current.id BY <2>1, Zenon DEF FlowInv, NamedPublished
    <2>4. m \in InMessages /\ m.id <= current.id BY <2>1, <2>2, <2>3 DEF InMessages
    <2>5. UserSends(m) BY <2>1, ZenonT(20)
    <2> HIDE DEF m
    <2> QED BY <1>3, <2>2, <2>4, <2>5
  <1> QED BY <1>1, <1>2, <1>4, <1>5

\* Every step keeps the first invariant.
LEMMA FlowStep == FlowInv /\ [Next]_vars => FlowInv'
  BY FlowUnchanged, FlowBoot, FlowRun, FlowMonitor, FlowIncoming, FlowRetirement, FlowUser
     DEF Next, Stopped, RuntimeStep

----------------------------------------------------------------------------
(* The refinement of TemplateSource.                                         *)

\* A future template is announced with its SetNewPrevHash.
LEMMA AnnounceRefines ==
    ASSUME FlowInv, NEW t \in Published, t.id > current.id, current' = t,
           out' = out \o <<NewMsg(t, TRUE), PrevMsg(t)>>
    PROVE  Promise!Next
  <1>1. Promise!Announce(t)
    BY DEF Promise!Announce, Promise!NewTemplate, Promise!SetNewPrevHash, NewMsg, PrevMsg
  <1> QED BY <1>1 DEF Promise!Next, Published

\* A fee refresh is of the tip and the constraints announced last.
LEMMA RefreshRefines ==
    ASSUME FlowInv, NEW t \in Published, t.id > current.id, current' = t, current # NoTemplate,
           t.tip = current.tip, t.epoch = current.epoch, out' = out \o <<NewMsg(t, FALSE)>>
    PROVE  Promise!Next
  <1> DEFINE a == [id |-> t.id, tip |-> current.tip, epoch |-> current.epoch]
  <1>1. current.tip # 0 BY DEF FlowInv, Shape, Published
  <1>2. out' = Append(out, NewMsg(t, FALSE)) BY StreamGrows, Zenon DEF FlowInv, Shape
  <1>3. Promise!NewTemplate(a, FALSE) = NewMsg(t, FALSE) BY Zenon DEF Promise!NewTemplate, NewMsg
  <1>4. Promise!Refresh(t.id)
    BY <1>1, <1>2, <1>3, Zenon DEF Promise!Refresh, Promise!Unannounced
  <1>5. t.id \in 1..MaxId BY DEF Published
  <1> QED BY <1>4, <1>5 DEF Promise!Next

\* An answer names a template that was sent.
LEMMA AnswerRefines ==
    ASSUME NEW id \in 1..MaxId, NEW ok \in BOOLEAN, id <= current.id, current' = current,
           out' = Append(out, DataMsg(id, ok))
    PROVE  Promise!Next
  <1>1. Promise!AnswerRequest(id, ok)
    BY DEF Promise!AnswerRequest, Promise!Answer, DataMsg
  <1> QED BY <1>1 DEF Promise!Next

\* Every step is a step of TemplateSource, or none of its concern.
LEMMA StepRefines == FlowInv /\ [Next]_vars => [Promise!Next]_(Promise!vars)
  <1> SUFFICES ASSUME FlowInv, [Next]_vars PROVE [Promise!Next]_(Promise!vars) OBVIOUS
  <1> DEFINE Stutters == out' = out /\ current' = current
  <1>0. Stutters => UNCHANGED Promise!vars BY DEF Promise!vars
  <1>10. Shape /\ IsRetained(held) /\ future \in Published \cup {NoTemplate} BY DEF FlowInv, Shape
  <1>1. CASE BootPublish
    <2>1. boot.got \in Published /\ current.id < boot.got.id
      BY <1>1, Zenon DEF FlowInv, Shape, OnePublisher, BootPublish, BootShape
    <2>2. publish_template(Stored(held, future), boot.got, TRUE, TRUE, TRUE) BY <1>1, Zenon DEF BootPublish
    <2>3. current' = boot.got /\ out' = out \o <<NewMsg(boot.got, TRUE), PrevMsg(boot.got)>>
      <3>1. PublishedAs(held, future, boot.got, TRUE) BY <1>10, <2>1, <2>2, PublishEffect, Zenon
      <3> QED BY <3>1, Zenon DEF PublishedAs
    <2>4. boot.got.id > current.id BY <1>1, <1>10, <2>1, Ids, ZenonT(20) DEF BootPublish
    <2> QED BY <2>1, <2>3, <2>4, AnnounceRefines, Zenon
  <1>2. CASE MonPublish
    <2>1. /\ mon.got \in Published /\ current.id < mon.got.id /\ mon.got.epoch = current.epoch
          /\ current # NoTemplate
      BY <1>2, Zenon DEF FlowInv, Shape, OnePublisher, MonPublish, MonShape
    <2>2. mon.got.id > current.id BY <1>2, <1>10, <2>1, Ids, Zenon DEF MonPublish
    <2>3. CASE TipMoved(mon.got)
      <3> DEFINE r == retire_all_templates(Stored(held, future))
      <3>1. IsRetained(r.ret) /\ r.fut = NoTemplate BY RetireAllKeeps, Zenon DEF FlowInv, Shape
      <3>2. r = Stored(r.ret, r.fut) BY DEF retire_all_templates, Stored
      <3>3. publish_template(Stored(r.ret, r.fut), mon.got, TRUE, TRUE, FALSE)
        BY <1>2, <2>3, <3>2, Zenon DEF MonPublish
      <3> HIDE DEF r
      <3>4. current' = mon.got /\ out' = out \o <<NewMsg(mon.got, TRUE), PrevMsg(mon.got)>>
        <4>1. r.fut \in Published \cup {NoTemplate} BY <3>1
        <4>2. PublishedAs(r.ret, r.fut, mon.got, TRUE) BY <1>10, <2>1, <3>1, <3>3, <4>1, PublishEffect, Zenon
        <4> QED BY <4>2, Zenon DEF PublishedAs
      <3> QED BY <2>1, <2>2, <3>4, AnnounceRefines, Zenon
    <2>4. CASE ~TipMoved(mon.got)
      <3>1. publish_template(Stored(held, future), mon.got, FALSE, FALSE, TRUE)
        BY <1>2, <2>4, Zenon DEF MonPublish
      <3>2. current' = mon.got /\ out' = out \o <<NewMsg(mon.got, FALSE)>>
        <4>1. PublishedAs(held, future, mon.got, FALSE) BY <1>10, <2>1, <3>1, PublishEffect, Zenon
        <4> QED BY <4>1, Zenon DEF PublishedAs
      <3> QED BY <2>1, <2>2, <2>4, <3>2, RefreshRefines, Zenon DEF TipMoved
    <2> QED BY <2>3, <2>4
  <1>3. CASE IncReceive
    <2> DEFINE m == Head(inbox)
    <2>1. m \in InMessages /\ m = inbox[1] /\ Len(inbox) >= 1
      BY <1>3, SeqRead DEF FlowInv, Shape, IncReceive
    <2>2. m.k # "con" => m.id \in 1..MaxId /\ m.id <= current.id
      BY <2>1 DEF FlowInv, NamedPublished, InMessages
    <2>3. current' = current BY <1>3 DEF IncReceive, store
    <2>4. out' = out \/ (m.k = "data" /\ out' = Append(out, DataMsg(m.id, FALSE)))
      BY <1>3, <2>1, Zenon DEF IncReceive, handle_coinbase_output_constraints, InMessages,
                        handle_request_transaction_data, handle_submit_solution
    <2> QED BY <1>0, <2>2, <2>3, <2>4, AnswerRefines, Zenon
  <1>4. CASE IncData
    <2>1. inc.id \in 1..MaxId /\ inc.id <= current.id
      BY <1>4, Zenon DEF FlowInv, Shape, NamedPublished, IncData, IncShape
    <2> QED BY <1>4, <2>1, AnswerRefines, Zenon DEF IncData, store
  <1>5. CASE UserRead
    <2>1. Promise!Read BY <1>5 DEF UserRead, Promise!Read, store
    <2> QED BY <2>1 DEF Promise!Next
  <1>6. CASE \/ BootCreated \/ BootAbandoned \/ RunFirst \/ RunCancelled
             \/ MonThread \/ MonTimeout \/ MonWaitNext \/ MonFailed \/ MonStopped
    BY <1>0, <1>6, Zenon DEF BootCreated, BootAbandoned, RunFirst, RunCancelled, MonThread, MonTimeout,
                      MonWaitNext, MonFailed, MonStopped, store, wire
  <1>7. CASE \/ IncJoined \/ IncSubmitted \/ IncFailed \/ IncStopped
             \/ Sweep \/ Destroy \/ DestroyFailed
    BY <1>0, <1>7, Zenon DEF IncJoined, IncSubmitted, IncFailed, IncStopped, Sweep, Destroy, DestroyFailed,
                      store, wire
  <1>8. CASE NewTip \/ IntervalOver \/ GraceOver \/ Shutdown \/ UserConstrains \/ UserAsks
    BY <1>0, <1>8, Zenon DEF NewTip, IntervalOver, GraceOver, Shutdown, UserConstrains, UserAsks, UserSends,
                      store, wire
  <1>9. CASE UNCHANGED vars BY <1>0, <1>9 DEF vars, store, wire
  <1> QED BY <1>1, <1>2, <1>3, <1>4, <1>5, <1>6, <1>7, <1>8, <1>9 DEF Next, Stopped, RuntimeStep

\* The runtime implements TemplateSource: whatever the monitor, a bootstrap, new
\* constraints and the requests of the user race, the user reads a stream with
\* growing ids, in which a template that is not future is of the tip and the
\* constraints of the last SetNewPrevHash, and answers are about templates sent.
THEOREM StreamIsTemplateSource == Spec => ImplementsTemplateSource
  <1>1. Init => Promise!Init
    BY DEF Init, Promise!Init, Promise!Unannounced, NoTemplate
  <1> QED BY FlowInit, FlowStep, StepRefines, <1>1, PTL DEF Spec, ImplementsTemplateSource, Promise!Spec

----------------------------------------------------------------------------
(* What the second invariant needs of the cap.  Its proof counts finite sets *)
(* and has a module of its own, TemplateRetentionProofs.                     *)

CapFacts ==
    /\ Cardinality({}) <= Cap
    /\ \A S \in SUBSET (0..MaxId) : /\ Cardinality(Newest(S)) <= Cap
                                    /\ Cardinality(S) <= Cap => Newest(S) = S
    /\ \A X, Y \in SUBSET (0..MaxId) : Newest(Newest(X) \cup Y) = Newest(X \cup Y)
    /\ \A ret, fut : IsRetained(ret) =>
          Live(retire_templates_beyond_cap(Stored(ret, fut)).ret) = Newest(Live(ret))

\* No template is within the cap.
LEMMA CapEmpty == ASSUME CapFacts PROVE Cardinality({}) <= Cap
  BY DEF CapFacts

\* The newest are within the cap.
LEMMA CapBounds ==
    ASSUME CapFacts, NEW S \in SUBSET (0..MaxId)
    PROVE  Newest(S) \in SUBSET S /\ Cardinality(Newest(S)) <= Cap
  BY Zenon DEF CapFacts, Newest

\* What is within the cap is the newest.
LEMMA CapAllows ==
    ASSUME CapFacts, NEW S \in SUBSET (0..MaxId), Cardinality(S) <= Cap
    PROVE  Newest(S) = S
  BY DEF CapFacts

\* Forgetting what is not the newest first or last makes no difference.
LEMMA CapAbsorbs ==
    ASSUME CapFacts, NEW X \in SUBSET (0..MaxId), NEW Y \in SUBSET (0..MaxId)
    PROVE  Newest(Newest(X) \cup Y) = Newest(X \cup Y)
  BY DEF CapFacts

\* publish_template leaves the newest alive, the template it stores included.
LEMMA PublishLive ==
    ASSUME CapFacts, NEW ret, IsRetained(ret), NEW fut \in Published \cup {NoTemplate},
           NEW t \in Published, NEW isFuture \in BOOLEAN, NEW instant \in BOOLEAN,
           publish_template(Stored(ret, fut), t, isFuture, isFuture, instant)
    PROVE  Live(held') = Newest(IF isFuture THEN Live(ret) ELSE Live(ret) \cup {t.id})
  <1> DEFINE put == IF isFuture THEN ret ELSE Put(ret, t.id, AsRetained(t, "no"))
             f == IF isFuture THEN t ELSE fut
  <1>1. store_template_data(Stored(ret, fut), t, isFuture) = Stored(put, f)
    BY DEF store_template_data, Stored
  <1>2. IsRetained(put) /\ Live(put) = IF isFuture THEN Live(ret) ELSE Live(ret) \cup {t.id}
    BY DEF IsRetained, Retained, Put, AsRetained, Live, Published
  <1>3. held' = retire_templates_beyond_cap(Stored(put, f)).ret BY <1>1 DEF publish_template
  <1> HIDE DEF put, f
  <1>4. Live(retire_templates_beyond_cap(Stored(put, f)).ret) = Newest(Live(put)) BY <1>2, Zenon DEF CapFacts
  <1> QED BY <1>2, <1>3, <1>4, Zenon

----------------------------------------------------------------------------
(* The second invariant: the live templates are of the tip and constraints   *)
(* published last, and none that a user may name is about to be destroyed.   *)

\* No SetNewPrevHash from position n of the stream on.
SameTip(s, n) == \A m \in n..Len(s) : s[m].k # "prev"

\* The ids of the templates the user will take up for the tip it will be on
\* when it has read the stream.
RefreshAt(s, n) == SameTip(s, n) /\ s[n].k = "new" /\ ~s[n].future
Refreshes(s) == {s[n].id : n \in {n \in 1..Len(s) : RefreshAt(s, n)}}

\* The jobs the user will have for that tip, if none is forgotten.
Believed(s, jobs) == (IF SameTip(s, 1) THEN jobs ELSE {}) \cup Refreshes(s)

\* A bootstrap starts from a store without live templates.
LiveInv ==
    /\ \A i \in Live(held) : held[i].tip = current.tip /\ held[i].epoch = current.epoch
    /\ future # NoTemplate => future.tip = current.tip /\ future.epoch = current.epoch
    /\ Cardinality(Live(held)) <= Cap
    /\ phase = "first" => inc.st = "off" /\ future = NoTemplate /\ Live(held) = {}
    /\ boot.st # "off" =>
          /\ future = NoTemplate /\ Live(held) = {}
          /\ inc.st = IF boot.by = "run" THEN "off" ELSE "boot"

\* A template that is held and has not outlived its grace period.
SafeIn(ret, fut, i) == i = fut.id \/ (i \in DOMAIN ret /\ ret[i].retired # "due")
Safe(i) == SafeIn(held, future, i)
SafeNext(i) == SafeIn(held', future', i)

\* Whatever a solution may name, now or once the stream is read, is safe.
NamedSafe ==
    /\ ~lost
    /\ \A n \in 1..Len(inbox) : inbox[n].k # "con" => Safe(inbox[n].id)
    /\ \A n \in 1..Len(out) : out[n].k # "data" => Safe(out[n].id)
    /\ user.future # 0 => Safe(user.future)
    /\ \A j \in user.jobs : Safe(j)

\* Once it has read the stream the user has the tip's future template and the
\* live ones, and no other, unless a bootstrap has retired them all.
InStep ==
    inc.st \notin {"boot", "exit"} =>
        /\ Live(held) = Newest(Believed(out, user.jobs))
        /\ SameTip(out, 1) => user.future \in {0, future.id}
        /\ \A n \in 1..Len(out) : out[n].k = "prev" /\ SameTip(out, n + 1) => out[n].id = future.id

RetainInv == LiveInv /\ NamedSafe /\ InStep /\ Cardinality(user.jobs) <= Cap

----------------------------------------------------------------------------
(* How the stream's reading changes as it grows and is read.                 *)

\* Reading a message takes the first refresh off the stream.
LEMMA ReadStream ==
    ASSUME NEW s \in Seq(OutMessages), s # <<>>
    PROVE  /\ Tail(s) \in Seq(OutMessages) /\ Len(Tail(s)) = Len(s) - 1 /\ Len(s) \in Nat \ {0}
           /\ Head(s) = s[1] /\ s[1] \in OutMessages
           /\ \A n \in 1..Len(s) - 1 : Tail(s)[n] = s[n + 1]
           /\ \A n \in Nat \ {0} : SameTip(Tail(s), n) <=> SameTip(s, n + 1)
           /\ Refreshes(s) = Refreshes(Tail(s)) \cup (IF RefreshAt(s, 1) THEN {s[1].id} ELSE {})
  <1> DEFINE t == Tail(s)
  <1>1. /\ t \in Seq(OutMessages) /\ Len(t) = Len(s) - 1 /\ Len(s) \in Nat \ {0}
        /\ Head(s) = s[1] /\ s[1] \in OutMessages
        /\ \A n \in 1..Len(s) - 1 : t[n] = s[n + 1]
    BY SeqRead
  <1>2. ASSUME NEW n \in Nat \ {0} PROVE SameTip(t, n) <=> SameTip(s, n + 1)
    <2>1. ASSUME SameTip(t, n), NEW m \in (n + 1)..Len(s) PROVE s[m].k # "prev"
      <3>1. m - 1 \in n..Len(t) /\ m - 1 \in 1..Len(s) - 1 BY <1>1
      <3>2. t[m - 1] = s[m] BY <1>1, <3>1
      <3> QED BY <2>1, <3>1, <3>2 DEF SameTip
    <2>2. ASSUME SameTip(s, n + 1), NEW m \in n..Len(t) PROVE t[m].k # "prev"
      <3>1. m + 1 \in (n + 1)..Len(s) /\ m \in 1..Len(s) - 1 BY <1>1
      <3> QED BY <1>1, <2>2, <3>1 DEF SameTip
    <2> QED BY <2>1, <2>2 DEF SameTip
  <1>3. \A n \in 1..Len(t) : RefreshAt(t, n) <=> RefreshAt(s, n + 1)
    <2> SUFFICES ASSUME NEW n \in 1..Len(t) PROVE RefreshAt(t, n) <=> RefreshAt(s, n + 1) OBVIOUS
    <2>1. n \in Nat \ {0} /\ t[n] = s[n + 1] BY <1>1
    <2>2. SameTip(t, n) <=> SameTip(s, n + 1) BY <1>2, <2>1
    <2> HIDE DEF t
    <2> QED BY <2>1, <2>2 DEF RefreshAt
  <1>4. ASSUME NEW x \in Refreshes(t) PROVE x \in Refreshes(s)
    <2>1. PICK n \in 1..Len(t) : RefreshAt(t, n) /\ x = t[n].id BY DEF Refreshes
    <2>2. n + 1 \in 1..Len(s) /\ RefreshAt(s, n + 1) /\ x = s[n + 1].id BY <1>1, <1>3, <2>1
    <2> QED BY <2>2 DEF Refreshes
  <1>5. RefreshAt(s, 1) => s[1].id \in Refreshes(s) BY <1>1 DEF Refreshes
  <1>6. ASSUME NEW x \in Refreshes(s) PROVE x \in Refreshes(t) \/ (RefreshAt(s, 1) /\ x = s[1].id)
    <2>1. PICK n \in 1..Len(s) : RefreshAt(s, n) /\ x = s[n].id BY DEF Refreshes
    <2>2. CASE n = 1 BY <2>1, <2>2
    <2>3. CASE n # 1
      <3>1. n - 1 \in 1..Len(t) /\ (n - 1) + 1 = n BY <1>1, <2>3
      <3>2. RefreshAt(t, n - 1) /\ x = t[n - 1].id BY <1>1, <1>3, <2>1, <3>1
      <3> QED BY <3>1, <3>2 DEF Refreshes
    <2> QED BY <2>2, <2>3
  <1> QED BY <1>1, <1>2, <1>4, <1>5, <1>6, Zenon

\* A message that is no SetNewPrevHash leaves the user on the tip it is on.
LEMMA AppendStream ==
    ASSUME NEW s \in Seq(OutMessages), NEW m \in OutMessages, m.k # "prev"
    PROVE  LET t == Append(s, m)
           IN  /\ \A n \in 1..Len(s) + 1 : SameTip(t, n) <=> SameTip(s, n)
               /\ Refreshes(t) = Refreshes(s) \cup (IF m.k = "new" /\ ~m.future THEN {m.id} ELSE {})
  <1> DEFINE t == Append(s, m)
  <1>1. /\ Len(t) = Len(s) + 1 /\ Len(s) \in Nat /\ t[Len(s) + 1] = m
        /\ \A n \in 1..Len(s) : t[n] = s[n]
    BY SeqAppend
  <1> HIDE DEF t
  <1>2. \A n \in 1..Len(s) + 1 : SameTip(t, n) <=> SameTip(s, n)
    <2> SUFFICES ASSUME NEW n \in 1..Len(s) + 1 PROVE SameTip(t, n) <=> SameTip(s, n) OBVIOUS
    <2>1. ASSUME SameTip(t, n), NEW k \in n..Len(s) PROVE s[k].k # "prev"
      <3>1. k \in n..Len(t) /\ k \in 1..Len(s) BY <1>1
      <3> QED BY <1>1, <2>1, <3>1 DEF SameTip
    <2>2. ASSUME SameTip(s, n), NEW k \in n..Len(t) PROVE t[k].k # "prev"
      <3>1. CASE k = Len(s) + 1 BY <1>1, <3>1
      <3>2. CASE k # Len(s) + 1
        <4>1. k \in n..Len(s) /\ k \in 1..Len(s) BY <1>1, <3>2
        <4> QED BY <1>1, <2>2, <4>1 DEF SameTip
      <3> QED BY <3>1, <3>2
    <2> QED BY <2>1, <2>2 DEF SameTip
  <1>3. \A n \in 1..Len(s) : RefreshAt(t, n) <=> RefreshAt(s, n) BY <1>1, <1>2 DEF RefreshAt
  <1>4. RefreshAt(t, Len(s) + 1) <=> m.k = "new" /\ ~m.future
    <2>1. SameTip(s, Len(s) + 1) BY <1>1 DEF SameTip
    <2>2. Len(s) + 1 \in 1..Len(s) + 1 BY <1>1
    <2> QED BY <1>1, <1>2, <2>1, <2>2 DEF RefreshAt
  <1>5. ASSUME NEW x \in Refreshes(s) PROVE x \in Refreshes(t)
    <2>1. PICK n \in 1..Len(s) : RefreshAt(s, n) /\ x = s[n].id BY DEF Refreshes
    <2>2. n \in 1..Len(t) /\ RefreshAt(t, n) /\ x = t[n].id BY <1>1, <1>3, <2>1
    <2> QED BY <2>2 DEF Refreshes
  <1>6. ASSUME m.k = "new" /\ ~m.future PROVE m.id \in Refreshes(t)
    <2>1. Len(s) + 1 \in 1..Len(t) BY <1>1
    <2> QED BY <1>1, <1>4, <1>6, <2>1 DEF Refreshes
  <1>7. ASSUME NEW x \in Refreshes(t)
        PROVE  x \in Refreshes(s) \/ (m.k = "new" /\ ~m.future /\ x = m.id)
    <2>1. PICK n \in 1..Len(t) : RefreshAt(t, n) /\ x = t[n].id BY DEF Refreshes
    <2>2. CASE n = Len(s) + 1 BY <1>1, <1>4, <2>1, <2>2
    <2>3. CASE n # Len(s) + 1
      <3>1. n \in 1..Len(s) BY <1>1, <2>3
      <3>2. RefreshAt(s, n) /\ x = s[n].id BY <1>1, <1>3, <2>1, <3>1
      <3> QED BY <3>1, <3>2 DEF Refreshes
    <2> QED BY <2>2, <2>3
  <1> QED BY <1>2, <1>5, <1>6, <1>7 DEF t

\* A SetNewPrevHash makes the user forget the jobs before it.
LEMMA AnnounceStream ==
    ASSUME NEW s \in Seq(OutMessages), NEW t \in Published
    PROVE  LET a == s \o <<NewMsg(t, TRUE), PrevMsg(t)>>
           IN  /\ \A n \in 1..Len(a) : ~SameTip(a, n)
               /\ Refreshes(a) = {} /\ 1 \in 1..Len(a)
  <1> DEFINE a == s \o <<NewMsg(t, TRUE), PrevMsg(t)>>
  <1>1. Len(a) = Len(s) + 2 /\ Len(s) \in Nat /\ a[Len(s) + 2] = PrevMsg(t) BY StreamGrows
  <1> HIDE DEF a
  <1>2. ASSUME NEW n \in 1..Len(a) PROVE ~SameTip(a, n)
    <2>1. Len(s) + 2 \in n..Len(a) BY <1>1
    <2> QED BY <1>1, <2>1 DEF SameTip, PrevMsg
  <1>3. Refreshes(a) = {} BY <1>2 DEF Refreshes, RefreshAt
  <1>4. 1 \in 1..Len(a) BY <1>1
  <1> QED BY <1>2, <1>3, <1>4, Zenon DEF a

----------------------------------------------------------------------------
(* Every step keeps the second invariant.                                    *)

\* What the second invariant's steps use of the first.
LEMMA FlowTypes ==
    ASSUME FlowInv
    PROVE  /\ out \in Seq(OutMessages) /\ Len(out) \in Nat
           /\ inbox \in Seq(InMessages) /\ Len(inbox) \in Nat
           /\ IsRetained(held) /\ future \in Published \cup {NoTemplate}
           /\ user \in [future : 0..MaxId, jobs : SUBSET (1..MaxId)] /\ MaxId \in Nat
  <1>1. out \in Seq(OutMessages) /\ inbox \in Seq(InMessages) BY DEF FlowInv, Shape
  <1>2. Len(out) \in Nat /\ Len(inbox) \in Nat BY <1>1, SeqElements
  <1> QED BY <1>1, <1>2, BoundsAssumption DEF FlowInv, Shape

\* The user's messages queue up.
LEMMA InboxGrows ==
    ASSUME NEW s \in Seq(InMessages), NEW e \in InMessages
    PROVE  /\ Len(Append(s, e)) = Len(s) + 1 /\ Append(s, e)[Len(s) + 1] = e
           /\ \A n \in 1..Len(s) : Append(s, e)[n] = s[n]
  BY SeqAppend

\* What the user knows is named by identifiers.
LEMMA JobIds ==
    ASSUME FlowInv
    PROVE  /\ user.future # 0 => user.future \in 1..MaxId
           /\ \A j \in user.jobs : j \in 1..MaxId
           /\ user.jobs \in SUBSET (0..MaxId)
  <1>1. user \in [future : 0..MaxId, jobs : SUBSET (1..MaxId)] /\ MaxId \in Nat BY FlowTypes, Zenon
  <1>2. user.future \in 0..MaxId /\ user.jobs \in SUBSET (1..MaxId) BY <1>1, Zenon
  <1>3. \A i \in 0..MaxId : i # 0 => i \in 1..MaxId BY <1>1
  <1> QED BY <1>1, <1>2, <1>3, NotZero, Zenon

\* Nothing is published, held or named at the start.
LEMMA RetainInit == CapFacts /\ Init => RetainInv
  <1> SUFFICES ASSUME CapFacts, Init PROVE RetainInv OBVIOUS
  <1>1. Live(held) = {} /\ Len(out) = 0 /\ Len(inbox) = 0 BY DEF Init, Live
  <1>2. Believed(out, user.jobs) = {} BY <1>1 DEF Init, Believed, Refreshes
  <1>3. Newest({}) = {} BY DEF Newest
  <1>4. Cardinality({}) <= Cap BY CapEmpty
  <1>5. LiveInv BY <1>1, <1>4, Zenon DEF Init, LiveInv, Off
  <1>6. NamedSafe BY <1>1 DEF Init, NamedSafe
  <1>7. InStep
    <2>1. user.future = 0 BY DEF Init
    <2>2. 1..Len(out) = {} BY <1>1
    <2> QED BY <1>1, <1>2, <1>3, <2>1, <2>2 DEF InStep
  <1> QED BY <1>4, <1>5, <1>6, <1>7 DEF RetainInv, Init

\* Steps of the tasks that touch neither the store nor a message.
LEMMA RetainKept ==
    ASSUME RetainInv, UNCHANGED <<held, future, current, wire, user, lost>>,
           phase' = "first" => phase = "first" /\ inc'.st = inc.st,
           boot'.st # "off" => boot.st # "off" /\ boot'.by = boot.by /\ inc'.st = inc.st,
           inc'.st \in {"boot", "exit"} \/ inc.st \notin {"boot", "exit"}
    PROVE  RetainInv'
  <1>1. LiveInv' BY ZenonT(20) DEF RetainInv, LiveInv
  <1>2. NamedSafe' BY ZenonT(20) DEF RetainInv, NamedSafe, Safe, SafeNext, SafeIn, wire
  <1>3. InStep' BY ZenonT(20) DEF RetainInv, InStep, wire
  <1> QED BY <1>1, <1>2, <1>3 DEF RetainInv

\* The tasks' steps that leave the store and the messages alone.
LEMMA RetainTasks ==
    ASSUME FlowInv, RetainInv,
           \/ BootCreated \/ BootAbandoned \/ RunCancelled
           \/ MonThread \/ MonTimeout \/ MonWaitNext \/ MonFailed \/ MonStopped
           \/ IncSubmitted \/ IncFailed \/ IncStopped \/ Destroy \/ DestroyFailed
           \/ NewTip \/ IntervalOver \/ Shutdown \/ UNCHANGED vars
    PROVE  RetainInv'
  <1>1. CASE BootCreated BY <1>1, RetainKept, ZenonT(20) DEF BootCreated, userVars
  <1>2. CASE BootAbandoned
    <2>1. phase = "first" => inc.st = "off" BY ZenonT(20) DEF RetainInv, LiveInv
    <2>2. inc.st = IF boot.by = "run" THEN "off" ELSE "boot" BY <1>2, ZenonT(20) DEF RetainInv, LiveInv, BootAbandoned
    <2>3. /\ boot'.st = "off" /\ UNCHANGED <<held, future, current, wire, user, lost>>
          /\ IF boot.by = "run" THEN phase' = "done" /\ inc' = inc
                                ELSE inc'.st = "exit" /\ phase' = phase
      BY <1>2 DEF BootAbandoned, Off, store, userVars
    <2>4. phase' # "first" /\ (inc'.st \in {"boot", "exit"} \/ inc.st \notin {"boot", "exit"})
      BY <2>1, <2>2, <2>3
    <2> QED BY <2>3, <2>4, RetainKept
  <1>3. CASE RunCancelled BY <1>3, RetainKept, ZenonT(20) DEF RunCancelled, store, userVars
  <1>4. CASE MonThread \/ MonTimeout \/ MonWaitNext \/ MonFailed \/ MonStopped
    BY <1>4, RetainKept, Zenon DEF MonThread, MonTimeout, MonWaitNext, MonFailed, MonStopped, store, userVars
  <1>5. CASE IncSubmitted \/ IncFailed \/ IncStopped
    <2>1. inc.st \in {"idle", "data", "submit"} /\ phase # "first" /\ boot.st = "off"
      BY <1>5, Zenon DEF RetainInv, LiveInv, IncSubmitted, IncFailed, IncStopped
    <2> QED BY <1>5, <2>1, RetainKept, ZenonT(20) DEF IncSubmitted, IncFailed, IncStopped, store, userVars
  <1>6. CASE Destroy \/ DestroyFailed
    BY <1>6, RetainKept, ZenonT(20) DEF Destroy, DestroyFailed, store, userVars
  <1>7. CASE NewTip \/ IntervalOver \/ Shutdown \/ UNCHANGED vars
    BY <1>7, RetainKept, Zenon DEF NewTip, IntervalOver, Shutdown, vars, runtime, store, wire, userVars
  <1> QED BY <1>1, <1>2, <1>3, <1>4, <1>5, <1>6, <1>7

\* The inbox is read by run() and written by the user.
LEMMA RetainInbox ==
    ASSUME FlowInv, RetainInv, RunFirst \/ UserConstrains \/ UserAsks
    PROVE  RetainInv'
  <1>1. CASE RunFirst
    <2>1. /\ Len(inbox') = Len(inbox) - 1 /\ Len(inbox) \in Nat
          /\ \A n \in 1..Len(inbox') : inbox'[n] = inbox[n + 1]
      BY <1>1, SeqRead, Zenon DEF FlowInv, Shape, RunFirst
    <2>2. NamedSafe'
      <3>1. UNCHANGED <<held, future, out, user, lost>> BY <1>1, Zenon DEF RunFirst, store, userVars
      <3>2. \A n \in 1..Len(inbox') : n + 1 \in 1..Len(inbox) BY <2>1, OneLess, Zenon
      <3>3. \A n \in 1..Len(inbox') : inbox'[n].k # "con" => Safe(inbox'[n].id)
        BY <2>1, <3>2, Zenon DEF RetainInv, NamedSafe
      <3> QED BY <3>1, <3>3, Zenon DEF RetainInv, NamedSafe, Safe, SafeIn
    <2>3. LiveInv'
      <3>1. phase = "first" /\ UNCHANGED <<held, future, current, inc>>
        BY <1>1, Zenon DEF RunFirst, store
      <3>2. inc.st = "off" /\ future = NoTemplate /\ Live(held) = {}
        BY <3>1, Zenon DEF RetainInv, LiveInv
      <3>3. UNCHANGED <<phase, boot>> \/ (phase' = "boot" /\ boot'.by = "run")
        <4>1. CASE Head(inbox).k = "con"
          <5>1. phase' = "boot" /\ boot' = [st |-> "create", by |-> "run", epoch |-> Head(inbox).epoch]
            BY <1>1, <4>1, Zenon DEF RunFirst, StartBoot
          <5> QED BY <5>1
        <4>2. CASE Head(inbox).k # "con" BY <1>1, <4>2, Zenon DEF RunFirst
        <4> QED BY <4>1, <4>2, Zenon
      <3> QED BY <3>1, <3>2, <3>3, Zenon DEF RetainInv, LiveInv
    <2>4. InStep' BY <1>1, ZenonT(20) DEF RetainInv, InStep, RunFirst, store, userVars
    <2> QED BY <1>1, <2>2, <2>3, <2>4, Zenon DEF RetainInv, RunFirst, userVars
  <1>2. ASSUME NEW m \in InMessages, UserSends(m), m.k # "con" => Safe(m.id)
        PROVE  RetainInv'
    <2>1. /\ Len(inbox') = Len(inbox) + 1 /\ Len(inbox) \in Nat /\ inbox'[Len(inbox) + 1] = m
          /\ \A n \in 1..Len(inbox) : inbox'[n] = inbox[n]
      <3>1. inbox' = Append(inbox, m) BY <1>2, Zenon DEF UserSends
      <3>2. inbox \in Seq(InMessages) /\ Len(inbox) \in Nat BY FlowTypes, Zenon
      <3>3. /\ Len(Append(inbox, m)) = Len(inbox) + 1 /\ Append(inbox, m)[Len(inbox) + 1] = m
            /\ \A n \in 1..Len(inbox) : Append(inbox, m)[n] = inbox[n]
        BY <1>2, <3>2, InboxGrows, Zenon
      <3> QED BY <3>1, <3>2, <3>3, Zenon
    <2>2. NamedSafe'
      <3>1. UNCHANGED <<held, future, out, user, lost>> BY <1>2, Zenon DEF UserSends, store
      <3>2. \A n \in 1..Len(inbox') : n \in 1..Len(inbox) \/ n = Len(inbox) + 1 BY <2>1, OneMore, Zenon
      <3>3. \A n \in 1..Len(inbox') : inbox'[n].k # "con" => Safe(inbox'[n].id)
        BY <1>2, <2>1, <3>2, Zenon DEF RetainInv, NamedSafe
      <3> QED BY <3>1, <3>3, Zenon DEF RetainInv, NamedSafe, Safe, SafeIn
    <2>3. LiveInv' BY <1>2, ZenonT(20) DEF RetainInv, LiveInv, UserSends, runtime, store
    <2>4. InStep' BY <1>2, ZenonT(20) DEF RetainInv, InStep, UserSends, runtime, store
    <2> QED BY <1>2, <2>2, <2>3, <2>4, Zenon DEF RetainInv, UserSends
  <1>3. CASE UserConstrains
    <2>1. [k |-> "con", epoch |-> nextEpoch] \in InMessages
      <3>1. nextEpoch \in 1..MaxEpoch + 1 /\ nextEpoch <= MaxEpoch /\ MaxEpoch \in Nat
        BY <1>3, BoundsAssumption, Zenon DEF UserConstrains, FlowInv, Shape
      <3>2. nextEpoch \in 1..MaxEpoch BY <3>1, Between, Zenon
      <3> QED BY <3>2, Zenon DEF InMessages
    <2>2. UserSends([k |-> "con", epoch |-> nextEpoch]) BY <1>3, Zenon DEF UserConstrains
    <2> QED BY <1>2, <2>1, <2>2, Zenon
  <1>4. CASE UserAsks
    <2> PICK id \in ({user.future} \union user.jobs) \ {0}, k \in {"data", "sol"} :
            UserSends([k |-> k, id |-> id])
      BY <1>4, Zenon DEF UserAsks
    <2>1. Safe(id) BY Zenon DEF RetainInv, NamedSafe
    <2>2. id \in 1..MaxId BY JobIds, Zenon
    <2>3. [k |-> k, id |-> id] \in InMessages BY <2>2, Zenon DEF InMessages
    <2>4. [k |-> k, id |-> id].id = id OBVIOUS
    <2> QED BY <1>2, <2>1, <2>3, <2>4, Zenon
  <1> QED BY <1>1, <1>3, <1>4, Zenon

\* The stream grows by an answer.
LEMMA InStepAnswers ==
    ASSUME FlowInv, InStep, NEW id \in 1..MaxId, NEW ok \in BOOLEAN,
           out' = Append(out, DataMsg(id, ok)), UNCHANGED <<held, future, user>>,
           inc.st \notin {"boot", "exit"}
    PROVE  InStep'
  <1>1. DataMsg(id, ok) \in OutMessages /\ DataMsg(id, ok).k = "data" BY ZenonT(20) DEF DataMsg, OutMessages
  <1>2. /\ \A n \in 1..Len(out) + 1 : SameTip(out', n) <=> SameTip(out, n)
        /\ Refreshes(out') = Refreshes(out)
    BY <1>1, FlowTypes, AppendStream, Zenon
  <1>3. /\ Len(out') = Len(out) + 1 /\ Len(out) \in Nat /\ out'[Len(out) + 1].k = "data"
        /\ \A n \in 1..Len(out) : out'[n] = out[n]
    <2>1. out \in Seq(OutMessages) /\ Len(out) \in Nat BY FlowTypes, Zenon
    <2>2. LET a == Append(out, DataMsg(id, ok))
          IN  /\ Len(a) = Len(out) + 1 /\ a[Len(out) + 1] = DataMsg(id, ok)
              /\ \A n \in 1..Len(out) : a[n] = out[n]
      BY <2>1, StreamAnswers, Zenon
    <2> QED BY <1>1, <2>1, <2>2, Zenon
  <1>4. /\ 1 \in 1..Len(out) + 1
        /\ \A n \in 1..Len(out') : n = Len(out) + 1 \/ (n \in 1..Len(out) /\ n + 1 \in 1..Len(out) + 1)
    BY <1>3, OneMore, Zenon
  <1>5. (SameTip(out', 1) <=> SameTip(out, 1)) /\ user' = user /\ future' = future /\ held' = held
    BY <1>2, <1>4, Zenon
  <1>6. Believed(out', user'.jobs) = Believed(out, user.jobs) BY <1>2, <1>5, Zenon DEF Believed
  <1>7. ASSUME NEW n \in 1..Len(out'), out'[n].k = "prev", SameTip(out', n + 1)
        PROVE  out'[n].id = future'.id
    <2>1. n \in 1..Len(out) /\ n + 1 \in 1..Len(out) + 1 BY <1>3, <1>4, <1>7, Zenon
    <2>2. out[n].k = "prev" /\ SameTip(out, n + 1) /\ out'[n] = out[n] BY <1>2, <1>3, <1>7, <2>1, Zenon
    <2> QED BY <1>5, <2>1, <2>2, Zenon DEF InStep
  <1>8. /\ Live(held') = Newest(Believed(out', user'.jobs))
        /\ SameTip(out', 1) => user'.future \in {0, future'.id}
    BY <1>5, <1>6, Zenon DEF InStep
  <1> QED BY <1>7, <1>8, Zenon DEF InStep

\* An answer names no template that a solution might name.
LEMMA AnswerSafe ==
    ASSUME FlowInv, NEW id \in 1..MaxId, NEW ok \in BOOLEAN, out' = Append(out, DataMsg(id, ok)),
           \A n \in 1..Len(out) : out[n].k # "data" => Safe(out[n].id)
    PROVE  \A n \in 1..Len(out') : out'[n].k # "data" => Safe(out'[n].id)
  <1>1. /\ Len(out) \in Nat /\ Len(out') = Len(out) + 1 /\ out'[Len(out) + 1] = DataMsg(id, ok)
        /\ \A n \in 1..Len(out) : out'[n] = out[n]
    BY FlowTypes, StreamAnswers, ZenonT(20)
  <1>2. DataMsg(id, ok).k = "data" BY ZenonT(20) DEF DataMsg
  <1>3. \A n \in 1..Len(out') : n \in 1..Len(out) \/ n = Len(out) + 1 BY <1>1
  <1> QED BY <1>1, <1>2, <1>3

\* The messages of the user find the templates they name.
LEMMA RetainIncoming ==
    ASSUME FlowInv, RetainInv, IncReceive \/ IncData
    PROVE  RetainInv'
  <1>0. phase # "first" /\ boot.st = "off" BY Zenon DEF RetainInv, LiveInv, IncReceive, IncData
  <1>1. CASE IncReceive
    <2> DEFINE m == Head(inbox)
    <2>1. /\ m \in InMessages /\ m = inbox[1] /\ Len(inbox) \in Nat \ {0}
          /\ Len(inbox') = Len(inbox) - 1
          /\ \A n \in 1..Len(inbox') : inbox'[n] = inbox[n + 1]
      BY <1>1, SeqRead DEF FlowInv, Shape, IncReceive
    <2>2. m.k # "con" => m.id \in 1..MaxId /\ Safe(m.id)
      BY <2>1 DEF RetainInv, NamedSafe, InMessages
    <2>3. /\ inc'.st \in {"idle", "join", "data", "submit"}
          /\ ~lost'
          /\ out' = out \/ (m.k = "data" /\ out' = Append(out, DataMsg(m.id, FALSE)))
      <3>1. inc.st = "idle" /\ ~lost BY <1>1 DEF IncReceive, RetainInv, NamedSafe
      <3>2. m.k \in {"con", "data", "sol"} BY <2>1 DEF InMessages
      <3>3. CASE m.k = "con"
        <4>1. handle_coinbase_output_constraints(m) BY <1>1, <3>3, Zenon DEF IncReceive
        <4> HIDE DEF m
        <4> QED BY <3>1, <4>1 DEF handle_coinbase_output_constraints
      <3>4. CASE m.k = "data"
        <4>1. handle_request_transaction_data(m) BY <1>1, <3>4, Zenon DEF IncReceive
        <4> HIDE DEF m
        <4>2. /\ \/ inc' = [st |-> "data", id |-> m.id] /\ out' = out
                 \/ inc' = inc /\ out' = Append(out, DataMsg(m.id, FALSE))
              /\ lost' = lost
          BY <4>1, Zenon DEF handle_request_transaction_data
        <4>3. inc'.st \in {"idle", "data"}
          <5>1. CASE inc' = inc BY <3>1, <5>1
          <5>2. CASE inc' = [st |-> "data", id |-> m.id] BY <5>2
          <5> QED BY <4>2, <5>1, <5>2, Zenon
        <4> QED BY <3>1, <3>4, <4>2, <4>3, Zenon
      <3>5. CASE m.k = "sol"
        <4>1. handle_submit_solution(m) BY <1>1, <3>5, Zenon DEF IncReceive
        <4>2. template_data_for(m.id) # "none"
          BY <2>2, <3>5 DEF template_data_for, Safe, SafeIn
        <4> HIDE DEF m
        <4> QED BY <3>1, <4>1, <4>2 DEF handle_submit_solution
      <3> QED BY <3>2, <3>3, <3>4, <3>5, Zenon
    <2>4. UNCHANGED <<held, future, current, user, phase, boot>> BY <1>1 DEF IncReceive, store
    <2>5. \A n \in 1..Len(inbox') : inbox'[n].k # "con" => Safe(inbox'[n].id)
      BY <2>1 DEF RetainInv, NamedSafe
    <2>6. \A n \in 1..Len(out') : out'[n].k # "data" => Safe(out'[n].id)
      <3>1. \A n \in 1..Len(out) : out[n].k # "data" => Safe(out[n].id) BY DEF RetainInv, NamedSafe
      <3>2. CASE out' = out BY <3>1, <3>2
      <3>3. CASE out' # out
        <4>1. m.id \in 1..MaxId /\ out' = Append(out, DataMsg(m.id, FALSE)) BY <2>2, <2>3, <3>3, Zenon
        <4> QED BY <3>1, <4>1, AnswerSafe, Zenon
      <3> QED BY <3>2, <3>3
    <2>7. NamedSafe' BY <2>3, <2>4, <2>5, <2>6, Zenon DEF RetainInv, NamedSafe, Safe, SafeNext, SafeIn
    <2>8. LiveInv' BY <1>0, <2>4, Zenon DEF RetainInv, LiveInv
    <2>9. inc.st = "idle" BY <1>1 DEF IncReceive
    <2>10. InStep'
      <3>1. CASE out' = out BY <2>3, <2>4, <2>9, <3>1, Zenon DEF RetainInv, InStep
      <3>2. CASE out' # out BY <2>2, <2>3, <2>4, <2>9, <3>2, InStepAnswers, Zenon DEF RetainInv
      <3> QED BY <3>1, <3>2
    <2> QED BY <2>4, <2>7, <2>8, <2>10 DEF RetainInv
  <1>2. CASE IncData
    <2>1. inc.id \in 1..MaxId BY <1>2, Zenon DEF FlowInv, Shape, IncData, IncShape
    <2>2. UNCHANGED <<held, future, current, user, phase, boot, inbox, lost>>
      BY <1>2 DEF IncData, store, userVars
    <2>3. \A n \in 1..Len(out') : out'[n].k # "data" => Safe(out'[n].id)
      BY <1>2, <2>1, AnswerSafe, Zenon DEF RetainInv, NamedSafe, IncData
    <2>4. NamedSafe' BY <2>2, <2>3, ZenonT(20) DEF RetainInv, NamedSafe, Safe, SafeNext, SafeIn
    <2>5. LiveInv' BY <1>0, <2>2, ZenonT(20) DEF RetainInv, LiveInv
    <2>6. InStep' BY <1>2, <2>1, <2>2, InStepAnswers, Zenon DEF RetainInv, IncData
    <2> QED BY <2>2, <2>4, <2>5, <2>6 DEF RetainInv
  <1> QED BY <1>1, <1>2

\* What the user may name stays safe when nothing safe is destroyed and the
\* stream grows by safe templates.
LEMMA NamedStaySafe ==
    ASSUME FlowInv, RetainInv, UNCHANGED <<inbox, user, lost>>,
           \A i \in 1..MaxId : Safe(i) => SafeNext(i),
           Len(out) \in Nat, Len(out') \in Nat, Len(out) <= Len(out'),
           \A n \in 1..Len(out) : out'[n] = out[n],
           \A n \in Len(out) + 1..Len(out') : out'[n].k # "data" => SafeNext(out'[n].id)
    PROVE  NamedSafe'
  <1>0. /\ \A m \in InMessages : m.k # "con" => m.id \in 1..MaxId
        /\ \A m \in OutMessages : m.id \in 1..MaxId
    BY Zenon DEF InMessages, OutMessages
  <1>1. \A n \in 1..Len(inbox) : inbox[n].k # "con" => inbox[n].id \in 1..MaxId /\ Safe(inbox[n].id)
    <2>1. \A n \in 1..Len(inbox) : inbox[n] \in InMessages BY FlowTypes, SeqElements, Zenon
    <2> QED BY <1>0, <2>1, Zenon DEF RetainInv, NamedSafe
  <1>2. \A n \in 1..Len(out) : out[n].k # "data" => out[n].id \in 1..MaxId /\ Safe(out[n].id)
    <2>1. \A n \in 1..Len(out) : out[n] \in OutMessages BY FlowTypes, SeqElements, Zenon
    <2> QED BY <1>0, <2>1, Zenon DEF RetainInv, NamedSafe
  <1>3. /\ user.future # 0 => user.future \in 1..MaxId /\ Safe(user.future)
        /\ \A j \in user.jobs : j \in 1..MaxId /\ Safe(j)
    BY JobIds, Zenon DEF RetainInv, NamedSafe
  <1>4. \A n \in 1..Len(out') : n \in 1..Len(out) \/ n \in Len(out) + 1..Len(out') OBVIOUS
  <1>5. \A n \in 1..Len(out') : out'[n].k # "data" => SafeNext(out'[n].id)
    BY <1>2, <1>4
  <1>6. \A n \in 1..Len(inbox') : inbox'[n].k # "con" => SafeNext(inbox'[n].id) BY <1>1, ZenonT(20)
  <1>7. /\ user'.future # 0 => SafeNext(user'.future)
        /\ \A j \in user'.jobs : SafeNext(j)
    BY <1>3
  <1>8. ~lost' BY DEF RetainInv, NamedSafe
  <1> QED BY <1>5, <1>6, <1>7, <1>8, Zenon DEF NamedSafe, Safe, SafeNext

\* The same when nothing is sent.
LEMMA NamedKeptSafe ==
    ASSUME FlowInv, RetainInv, UNCHANGED <<inbox, user, lost>>, UNCHANGED out,
           \A i \in 1..MaxId : Safe(i) => SafeNext(i)
    PROVE  NamedSafe'
  <1>1. Len(out) \in Nat /\ out' = out BY FlowTypes, Zenon
  <1>2. Len(out) <= Len(out) /\ \A n \in Len(out) + 1..Len(out) : FALSE BY <1>1
  <1> QED BY <1>1, <1>2, NamedStaySafe, Zenon

\* A future template is published over a store without live templates.
LEMMA RetainAnnounce ==
    ASSUME FlowInv, CapFacts, RetainInv, NEW t \in Published, current' = t, future' = t, Live(held') = {},
           out' = out \o <<NewMsg(t, TRUE), PrevMsg(t)>>, UNCHANGED <<inbox, user, lost>>,
           \A i \in 1..MaxId : Safe(i) => SafeNext(i),
           boot'.st = "off", phase' # "first"
    PROVE  RetainInv'
  <1>1. /\ Len(out') = Len(out) + 2 /\ Len(out) \in Nat
        /\ out'[Len(out) + 1] = NewMsg(t, TRUE) /\ out'[Len(out) + 2] = PrevMsg(t)
        /\ \A n \in 1..Len(out) : out'[n] = out[n]
    BY FlowTypes, StreamGrows, Zenon
  <1>2. \A n \in Len(out) + 1..Len(out') : out'[n].id = t.id /\ SafeNext(out'[n].id)
    <2>1. SafeNext(t.id) BY Zenon DEF SafeNext, SafeIn
    <2>2. \A n \in Len(out) + 1..Len(out') : n \in {Len(out) + 1, Len(out) + 2} BY <1>1
    <2>3. NewMsg(t, TRUE).id = t.id /\ PrevMsg(t).id = t.id BY ZenonT(20) DEF NewMsg, PrevMsg
    <2> QED BY <1>1, <2>1, <2>2, <2>3, Zenon
  <1>3. NamedSafe'
    <2>1. Len(out') \in Nat /\ Len(out) <= Len(out') BY <1>1
    <2> QED BY <1>1, <1>2, <2>1, NamedStaySafe, Zenon
  <1>4. LiveInv' BY CapEmpty, ZenonT(20) DEF LiveInv
  <1>5. /\ \A n \in 1..Len(out') : ~SameTip(out', n)
        /\ Refreshes(out') = {} /\ 1 \in 1..Len(out')
    BY AnnounceStream, Zenon DEF FlowInv, Shape
  <1>6. Newest(Believed(out', user'.jobs)) = {} BY <1>5, Zenon DEF Believed, Newest
  <1>7. ASSUME NEW n \in 1..Len(out'), out'[n].k = "prev", SameTip(out', n + 1)
        PROVE  out'[n].id = future'.id
    <2>1. n + 1 \notin 1..Len(out') BY <1>5, <1>7, Zenon
    <2>2. n = Len(out) + 2 BY <1>1, <2>1
    <2>3. PrevMsg(t).id = t.id BY Zenon DEF PrevMsg
    <2> QED BY <1>1, <2>2, <2>3, Zenon
  <1>8. InStep' BY <1>5, <1>6, <1>7, Zenon DEF InStep
  <1> QED BY <1>3, <1>4, <1>8 DEF RetainInv

\* A bootstrap publishes over a store it has retired as a whole.
LEMMA RetainBootPublish ==
    ASSUME FlowInv, CapFacts, RetainInv, BootPublish
    PROVE  RetainInv'
  <1>1. boot.got \in Published BY Zenon DEF FlowInv, Shape, BootPublish, BootShape
  <1>2. publish_template(Stored(held, future), boot.got, TRUE, TRUE, TRUE) BY Zenon DEF BootPublish
  <1>3. /\ future' = boot.got /\ current' = boot.got
        /\ out' = out \o <<NewMsg(boot.got, TRUE), PrevMsg(boot.got)>>
        /\ DOMAIN held' = DOMAIN held
        /\ Live(held') = Newest(Live(held))
        /\ \A i \in DOMAIN held : held'[i].retired = "due" => held[i].retired = "due"
    <2>1. Shape /\ IsRetained(held) /\ future \in Published \cup {NoTemplate} BY ZenonT(20) DEF FlowInv, Shape
    <2>2. PublishedAs(held, future, boot.got, TRUE) BY <1>1, <1>2, <2>1, PublishEffect, Zenon
    <2>3. Live(held') = Newest(Live(held)) BY <1>1, <1>2, <2>1, PublishLive, Zenon
    <2> QED BY <2>2, <2>3, Zenon DEF PublishedAs
  <1>4. future = NoTemplate /\ Live(held) = {} /\ boot.st = "fetch"
    BY Zenon DEF RetainInv, LiveInv, BootPublish
  <1>5. Live(held') = {} BY <1>3, <1>4 DEF Newest
  <1>6. \A i \in 1..MaxId : Safe(i) => SafeNext(i)
    <2>1. ASSUME NEW i \in 1..MaxId, Safe(i) PROVE i \in DOMAIN held /\ held[i].retired # "due"
      <3>1. future.id = 0 BY <1>4, Zenon DEF NoTemplate
      <3>2. i # 0 BY <2>1, NotZero, FlowTypes, Zenon
      <3> QED BY <2>1, <3>1, <3>2, Zenon DEF Safe, SafeIn
    <2> QED BY <1>3, <2>1, Zenon DEF SafeNext, SafeIn
  <1>7. boot'.st = "off" /\ phase' # "first" /\ UNCHANGED <<inbox, user, lost>>
    BY <1>4, ZenonT(20) DEF BootPublish, Off, userVars, FlowInv, OnePublisher
  <1> QED BY <1>1, <1>3, <1>5, <1>6, <1>7, RetainAnnounce, Zenon

\* What the user will have for its tip are ids of templates.
LEMMA BelievedIds ==
    ASSUME FlowInv
    PROVE  Believed(out, user.jobs) \in SUBSET (0..MaxId) /\ MaxId \in Nat
  <1>1. \A n \in 1..Len(out) : out[n].id \in 1..MaxId BY DEF FlowInv, Shape, OutMessages
  <1>2. Refreshes(out) \in SUBSET (1..MaxId) BY <1>1 DEF Refreshes
  <1>3. user.jobs \in SUBSET (1..MaxId) BY DEF FlowInv, Shape
  <1> QED BY <1>2, <1>3, BoundsAssumption DEF Believed

\* The monitor retires all when the tip moved and adds a template when it did not.
LEMMA RetainMonPublish ==
    ASSUME FlowInv, CapFacts, RetainInv, MonPublish
    PROVE  RetainInv'
  <1> DEFINE t == mon.got
  <1>1. t \in Published /\ t.epoch = current.epoch /\ boot.st = "off" /\ phase # "first"
    BY Zenon DEF FlowInv, Shape, OnePublisher, MonPublish, MonShape, BootShape
  <1>2. UNCHANGED <<inbox, user, lost, boot, phase, inc>> BY DEF MonPublish, userVars
  <1> HIDE DEF t
  <1>3. CASE TipMoved(t)
    <2> DEFINE r == retire_all_templates(Stored(held, future))
    <2>1. /\ IsRetained(r.ret) /\ r.fut = NoTemplate /\ Live(r.ret) = {}
          /\ DOMAIN r.ret = DOMAIN held \cup (IF future = NoTemplate THEN {} ELSE {future.id})
          /\ \A i \in DOMAIN r.ret : r.ret[i].retired = "due" => i \in DOMAIN held /\ held[i].retired = "due"
          /\ future # NoTemplate => r.ret[future.id].retired = "grace"
      BY RetireAllKeeps, Zenon DEF FlowInv, Shape
    <2>2. r = Stored(r.ret, r.fut) BY ZenonT(20) DEF retire_all_templates, Stored
    <2>3. publish_template(Stored(r.ret, r.fut), t, TRUE, TRUE, FALSE)
      BY <1>3, <2>2, Zenon DEF MonPublish, t
    <2> HIDE DEF r
    <2>4. /\ future' = t /\ current' = t
          /\ out' = out \o <<NewMsg(t, TRUE), PrevMsg(t)>>
          /\ DOMAIN held' = DOMAIN r.ret /\ Live(held') = Newest(Live(r.ret))
          /\ \A i \in DOMAIN r.ret : held'[i].retired = "due" => r.ret[i].retired = "due"
      <3>1. Shape /\ r.fut \in Published \cup {NoTemplate} BY <2>1, ZenonT(20) DEF FlowInv
      <3>2. PublishedAs(r.ret, r.fut, t, TRUE) BY <1>1, <2>1, <2>3, <3>1, PublishEffect, Zenon
      <3>3. Live(held') = Newest(Live(r.ret)) BY <1>1, <2>1, <2>3, <3>1, PublishLive, Zenon
      <3> QED BY <3>2, <3>3, ZenonT(20) DEF PublishedAs
    <2>5. Live(held') = {} BY <2>1, <2>4, Zenon DEF Newest
    <2>6. ASSUME NEW i \in 1..MaxId, Safe(i) PROVE SafeNext(i)
      <3>1. CASE i = future.id
        <4>1. future # NoTemplate BY <3>1 DEF NoTemplate
        <4> QED BY <2>1, <2>4, <3>1, <4>1, ZenonT(20) DEF Safe, SafeNext, SafeIn
      <3>2. CASE i \in DOMAIN held /\ held[i].retired # "due"
        BY <2>1, <2>4, <3>2, ZenonT(20) DEF Safe, SafeNext, SafeIn
      <3> QED BY <2>6, <3>1, <3>2, ZenonT(20) DEF Safe, SafeNext, SafeIn
    <2> QED BY <1>1, <1>2, <2>4, <2>5, <2>6, RetainAnnounce, Zenon
  <1>4. CASE ~TipMoved(t)
    <2>1. publish_template(Stored(held, future), t, FALSE, FALSE, TRUE) BY <1>4, Zenon DEF MonPublish, t
    <2>2. /\ future' = future /\ current' = t /\ out' = out \o <<NewMsg(t, FALSE)>>
          /\ DOMAIN held' = DOMAIN held \cup {t.id}
          /\ Live(held') = Newest(Live(held) \cup {t.id})
          /\ \A i \in DOMAIN held :
                \/ i = t.id
                \/ /\ held'[i].tip = held[i].tip /\ held'[i].epoch = held[i].epoch
                   /\ held'[i].retired = "due" => held[i].retired = "due"
          /\ held'[t.id].tip = t.tip /\ held'[t.id].epoch = t.epoch /\ held'[t.id].retired # "due"
      <3>1. Shape /\ IsRetained(held) /\ future \in Published \cup {NoTemplate} BY DEF FlowInv, Shape
      <3>2. PublishedAs(held, future, t, FALSE) BY <1>1, <2>1, <3>1, PublishEffect, Zenon
      <3>3. Live(held') = Newest(Live(held) \cup {t.id}) BY <1>1, <2>1, <3>1, PublishLive, Zenon
      <3> QED BY <3>2, <3>3, ZenonT(20) DEF PublishedAs
    <2>3. /\ Len(out') = Len(out) + 1 /\ Len(out) \in Nat /\ out'[Len(out) + 1] = NewMsg(t, FALSE)
          /\ out' = Append(out, NewMsg(t, FALSE))
          /\ \A n \in 1..Len(out) : out'[n] = out[n]
      BY <1>1, <2>2, FlowTypes, StreamGrows, Zenon
    <2>4. t.tip = current.tip BY <1>4 DEF TipMoved
    <2>5. Live(held) \in SUBSET (0..MaxId) /\ t.id \in 0..MaxId /\ MaxId \in Nat
      <3>1. DOMAIN held \in SUBSET (1..MaxId) /\ MaxId \in Nat BY FlowTypes DEF IsRetained
      <3>2. t.id \in 1..MaxId BY <1>1 DEF Published
      <3> QED BY <3>1, <3>2 DEF Live
    <2>6. \A i \in 1..MaxId : Safe(i) => SafeNext(i) BY <2>2, ZenonT(20) DEF Safe, SafeNext, SafeIn
    <2>7. \A n \in Len(out) + 1..Len(out') : SafeNext(out'[n].id)
      <3>1. SafeNext(t.id) BY <2>2, Zenon DEF SafeNext, SafeIn
      <3>2. \A n \in Len(out) + 1..Len(out') : n = Len(out) + 1 BY <2>3, OneMore, Zenon
      <3>3. NewMsg(t, FALSE).id = t.id BY DEF NewMsg
      <3> QED BY <2>3, <3>1, <3>2, <3>3, Zenon
    <2>8. NamedSafe'
      <3>1. Len(out') \in Nat /\ Len(out) <= Len(out') BY <2>3
      <3> QED BY <1>2, <2>3, <2>6, <2>7, <3>1, NamedStaySafe, Zenon
    <2>9. LiveInv'
      <3>1. Cardinality(Live(held')) <= Cap /\ Live(held') \in SUBSET (Live(held) \cup {t.id})
        <4> DEFINE S == Live(held) \cup {t.id}
        <4>1. S \in SUBSET (0..MaxId) BY <2>5
        <4>2. Live(held') = Newest(S) BY <2>2, ZenonT(20)
        <4> HIDE DEF S
        <4>3. Newest(S) \in SUBSET S /\ Cardinality(Newest(S)) <= Cap BY <2>5, <4>1, CapBounds, Zenon
        <4> QED BY <4>2, <4>3, ZenonT(20) DEF S
      <3>2. \A i \in Live(held') : held'[i].tip = t.tip /\ held'[i].epoch = t.epoch
        BY <1>1, <2>2, <2>4, <3>1, Zenon DEF RetainInv, LiveInv, Live
      <3>3. future # NoTemplate => future.tip = t.tip /\ future.epoch = t.epoch
        BY <1>1, <2>4, ZenonT(20) DEF RetainInv, LiveInv
      <3> QED BY <1>1, <1>2, <2>2, <3>1, <3>2, <3>3, Zenon DEF LiveInv
    <2>10. InStep'
      <3> SUFFICES ASSUME inc.st \notin {"boot", "exit"} PROVE InStep' BY <1>2, ZenonT(20) DEF InStep
      <3>1. NewMsg(t, FALSE) \in OutMessages BY <1>1, ZenonT(20) DEF NewMsg, OutMessages, Published
      <3>2. /\ \A n \in 1..Len(out) + 1 : SameTip(out', n) <=> SameTip(out, n)
            /\ Refreshes(out') = Refreshes(out) \cup {t.id}
        BY <2>3, <3>1, AppendStream, Zenon DEF FlowInv, Shape, NewMsg
      <3>3. Believed(out', user'.jobs) = Believed(out, user.jobs) \cup {t.id}
        <4>1. 1 \in 1..Len(out) + 1 BY <2>3
        <4>2. (SameTip(out', 1) <=> SameTip(out, 1)) /\ user'.jobs = user.jobs BY <1>2, <3>2, <4>1
        <4> QED BY <3>2, <4>2, ZenonT(20) DEF Believed
      <3>4. Live(held) = Newest(Believed(out, user.jobs)) BY ZenonT(20) DEF RetainInv, InStep
      <3>5. Live(held') = Newest(Believed(out', user'.jobs))
        <4> DEFINE X == Believed(out, user.jobs)
        <4>1. X \in SUBSET (0..MaxId) /\ {t.id} \in SUBSET (0..MaxId) BY <2>5, BelievedIds
        <4>2. Live(held') = Newest(Newest(X) \cup {t.id}) BY <2>2, <3>4, Zenon
        <4>3. Believed(out', user'.jobs) = X \cup {t.id} BY <3>3, ZenonT(20)
        <4> HIDE DEF X
        <4>4. Newest(Newest(X) \cup {t.id}) = Newest(X \cup {t.id}) BY <2>5, <4>1, CapAbsorbs, Zenon
        <4> QED BY <4>2, <4>3, <4>4
      <3>6. \A n \in 1..Len(out') : out'[n].k = "prev" /\ SameTip(out', n + 1) => out'[n].id = future'.id
        <4> SUFFICES ASSUME NEW n \in 1..Len(out'), out'[n].k = "prev", SameTip(out', n + 1)
                     PROVE  out'[n].id = future'.id
          BY Zenon
        <4>1. NewMsg(t, FALSE).k # "prev" BY Zenon DEF NewMsg
        <4>2. n \in 1..Len(out) /\ n + 1 \in 1..Len(out) + 1 BY <2>3, <4>1, OneMore, Zenon
        <4>3. out[n].k = "prev" /\ SameTip(out, n + 1) BY <2>3, <3>2, <4>2, Zenon
        <4>4. out[n].id = future.id BY <4>2, <4>3, Zenon DEF RetainInv, InStep
        <4> QED BY <2>2, <2>3, <4>2, <4>4, ZenonT(20)
      <3>7. SameTip(out', 1) => user'.future \in {0, future'.id}
        <4>1. 1 \in 1..Len(out) + 1 BY <2>3
        <4>2. SameTip(out', 1) <=> SameTip(out, 1) BY <3>2, <4>1, Zenon
        <4>3. SameTip(out, 1) => user.future \in {0, future.id} BY ZenonT(20) DEF RetainInv, InStep
        <4>4. user'.future = user.future /\ future'.id = future.id BY <1>2, <2>2, <2>3, ZenonT(20)
        <4> QED BY <4>2, <4>3, <4>4, Zenon
      <3> QED BY <3>5, <3>6, <3>7, Zenon DEF InStep
    <2> QED BY <1>2, <2>8, <2>9, <2>10 DEF RetainInv
  <1> QED BY <1>3, <1>4

\* New constraints retire all templates, the sweep drops those that are due, and
\* the grace period is over for the retired ones once nobody knows them.
LEMMA RetainStore ==
    ASSUME FlowInv, CapFacts, RetainInv, IncJoined \/ Sweep \/ GraceOver
    PROVE  RetainInv'
  <1>0. Len(out) \in Nat BY DEF FlowInv, Shape
  <1>1. CASE IncJoined
    <2>1. /\ Live(held') = {} /\ future' = NoTemplate
          /\ DOMAIN held' = DOMAIN held \cup (IF future = NoTemplate THEN {} ELSE {future.id})
          /\ \A i \in DOMAIN held' : held'[i].retired = "due" => i \in DOMAIN held /\ held[i].retired = "due"
          /\ future # NoTemplate => held'[future.id].retired = "grace"
      <3> DEFINE r == retire_all_templates(Stored(held, future))
      <3>1. /\ r.fut = NoTemplate /\ Live(r.ret) = {}
            /\ DOMAIN r.ret = DOMAIN held \cup (IF future = NoTemplate THEN {} ELSE {future.id})
            /\ \A i \in DOMAIN r.ret : r.ret[i].retired = "due" => i \in DOMAIN held /\ held[i].retired = "due"
            /\ future # NoTemplate => r.ret[future.id].retired = "grace"
        BY FlowTypes, RetireAllKeeps, Zenon
      <3>2. held' = r.ret /\ future' = r.fut BY <1>1, ZenonT(20) DEF IncJoined
      <3> HIDE DEF r
      <3> QED BY <3>1, <3>2, ZenonT(20)
    <2>2. ASSUME NEW i \in 1..MaxId, Safe(i) PROVE SafeNext(i)
      <3>1. CASE i = future.id
        <4>1. future # NoTemplate BY <3>1 DEF NoTemplate
        <4> QED BY <2>1, <3>1, <4>1, ZenonT(20) DEF Safe, SafeNext, SafeIn
      <3>2. CASE i \in DOMAIN held /\ held[i].retired # "due" BY <2>1, <3>2, ZenonT(20) DEF Safe, SafeNext, SafeIn
      <3> QED BY <2>2, <3>1, <3>2 DEF Safe, SafeNext, SafeIn
    <2>3. /\ UNCHANGED <<inbox, out, user, lost, current, phase>>
          /\ boot'.by = "inc" /\ inc'.st = "boot"
      BY <1>1, ZenonT(20) DEF IncJoined, StartBoot, wire, userVars
    <2>4. NamedSafe' BY <1>0, <2>2, <2>3, NamedKeptSafe, Zenon
    <2>5. phase # "first" BY <1>1, Zenon DEF RetainInv, LiveInv, IncJoined
    <2>6. LiveInv' BY <2>1, <2>3, <2>5, CapEmpty, Zenon DEF LiveInv
    <2> QED BY <2>3, <2>4, <2>6, ZenonT(20) DEF RetainInv, InStep
  <1>2. CASE Sweep
    <2>1. /\ DOMAIN held' = {j \in DOMAIN held : held[j].retired # "due"}
          /\ \A i \in DOMAIN held' : held'[i] = held[i]
      BY <1>2, ZenonT(20) DEF Sweep, IsDue
    <2>2. Live(held') = Live(held) /\ \A i \in Live(held') : held'[i] = held[i] BY <2>1 DEF Live
    <2>3. UNCHANGED <<future, inbox, out, user, lost, current, phase, boot, inc>>
      BY <1>2, ZenonT(20) DEF Sweep, wire, userVars
    <2>4. \A i \in 1..MaxId : Safe(i) => SafeNext(i) BY <2>1, <2>3, ZenonT(20) DEF Safe, SafeNext, SafeIn
    <2>5. NamedSafe' BY <1>0, <2>3, <2>4, NamedKeptSafe, Zenon
    <2>6. LiveInv' BY <2>2, <2>3, ZenonT(20) DEF RetainInv, LiveInv
    <2>7. InStep' BY <2>2, <2>3, Zenon DEF RetainInv, InStep
    <2> QED BY <2>3, <2>5, <2>6, <2>7, ZenonT(20) DEF RetainInv
  <1>3. CASE GraceOver
    <2>1. /\ DOMAIN held' = DOMAIN held
          /\ \A i \in DOMAIN held : IF held[i].retired = "grace"
                                     THEN held'[i] = [held[i] EXCEPT !.retired = "due"]
                                     ELSE held'[i] = held[i]
      BY <1>3 DEF GraceOver
    <2>2. Live(held') = Live(held) /\ \A i \in Live(held') : held'[i] = held[i]
      <3>1. ASSUME NEW i \in DOMAIN held
            PROVE  IF held[i].retired = "no" THEN held'[i] = held[i] ELSE held'[i].retired # "no"
        <4>1. held[i] \in Retained BY FlowTypes DEF IsRetained
        <4>2. CASE held[i].retired = "grace" BY <2>1, <4>1, <4>2 DEF Retained
        <4>3. CASE held[i].retired # "grace" BY <2>1, <4>3
        <4> QED BY <4>2, <4>3
      <3> QED BY <2>1, <3>1 DEF Live
    <2>3. UNCHANGED <<future, inbox, out, user, lost, current, phase, boot, inc>>
      BY <1>3 DEF GraceOver, runtime, wire, userVars
    <2>4. Len(inbox) = 0 /\ Len(out) = 0 /\ inc.st = "idle" BY <1>3 DEF GraceOver
    <2>5. SameTip(out, 1) /\ Believed(out, user.jobs) = user.jobs
      BY <2>4 DEF SameTip, Believed, Refreshes
    <2>6. Newest(user.jobs) = user.jobs
      <3>1. user.jobs \in SUBSET (0..MaxId) /\ MaxId \in Nat
        BY FlowTypes, JobIds, Zenon
      <3> QED BY <3>1, CapAllows, Zenon DEF RetainInv
    <2>7. user.jobs = Live(held) /\ user.future \in {0, future.id}
      BY <2>4, <2>5, <2>6, ZenonT(20) DEF RetainInv, InStep
    <2>8. NamedSafe'
      <3>1. \A j \in user.jobs : SafeNext(j)
        <4>1. \A j \in Live(held) : j \in DOMAIN held' /\ held'[j].retired = "no" BY <2>1, <2>2, Zenon DEF Live
        <4> QED BY <2>7, <4>1, Zenon DEF SafeNext, SafeIn
      <3>2. user.future # 0 => SafeNext(user.future) BY <2>3, <2>7, Zenon DEF SafeNext, SafeIn
      <3>3. ~lost /\ Len(inbox') = 0 /\ Len(out') = 0 BY <2>3, <2>4, Zenon DEF RetainInv, NamedSafe
      <3>4. \A n \in 1..0 : FALSE OBVIOUS
      <3> QED BY <2>3, <3>1, <3>2, <3>3, <3>4, Zenon DEF NamedSafe, Safe, SafeNext
    <2>9. LiveInv' BY <2>2, <2>3, Zenon DEF RetainInv, LiveInv
    <2>10. InStep'
      <3>1. InStep BY Zenon DEF RetainInv
      <3> QED BY <2>2, <2>3, <3>1, Zenon DEF InStep
    <2> QED BY <2>3, <2>8, <2>9, <2>10, Zenon DEF RetainInv
  <1> QED BY <1>1, <1>2, <1>3

\* The user reads a message.
LEMMA RetainUserRead ==
    ASSUME FlowInv, CapFacts, RetainInv, UserRead
    PROVE  RetainInv'
  <1> DEFINE m == out[1]
  <1>0. out \in Seq(OutMessages) /\ out # <<>> /\ out' = Tail(out) BY DEF UserRead, FlowInv, Shape
  <1>1. /\ Len(out') = Len(out) - 1 /\ Len(out) \in Nat \ {0} /\ Head(out) = m /\ m \in OutMessages
        /\ \A n \in 1..Len(out) - 1 : out'[n] = out[n + 1]
        /\ \A n \in Nat \ {0} : SameTip(out', n) <=> SameTip(out, n + 1)
        /\ Refreshes(out) = Refreshes(out') \cup (IF RefreshAt(out, 1) THEN {m.id} ELSE {})
    BY <1>0, ReadStream, ZenonT(20)
  <1>2. UNCHANGED <<held, future, current, inbox, lost, phase, boot, inc>>
    BY DEF UserRead, runtime, store
  <1>3. m.k # "data" => Safe(m.id)
    <2>1. 1 \in 1..Len(out) BY <1>1, OneLess, Zenon
    <2> QED BY <2>1, Zenon DEF RetainInv, NamedSafe
  <1>4. 1 \in 1..Len(out) /\ m.id \in 1..MaxId /\ user.jobs \in SUBSET (0..MaxId) /\ MaxId \in Nat
        /\ user \in [future : 0..MaxId, jobs : SUBSET (1..MaxId)]
    <2>1. m.id \in 1..MaxId BY <1>1, Zenon DEF OutMessages
    <2>2. 1 \in 1..Len(out) BY <1>1
    <2> QED BY <2>1, <2>2, FlowTypes
  <1>5. SameTip(out, 1) <=> SameTip(out, 2) /\ m.k # "prev"
    <2>1. \A n \in 1..Len(out) : n = 1 \/ n \in 2..Len(out) OBVIOUS
    <2>2. \A n \in 2..Len(out) : n \in 1..Len(out) OBVIOUS
    <2> QED BY <1>4, <2>1, <2>2 DEF SameTip
  <1>6. SameTip(out', 1) <=> SameTip(out, 2) BY <1>1
  <1>7. LiveInv' BY <1>2, ZenonT(20) DEF RetainInv, LiveInv
  <1>8. \A n \in 1..Len(out') : out'[n].k # "data" => Safe(out'[n].id)
    <2>1. \A n \in 1..Len(out') : n + 1 \in 1..Len(out) /\ n \in 1..Len(out) - 1 BY <1>1
    <2>2. \A n \in 1..Len(out) : out[n].k # "data" => Safe(out[n].id) BY ZenonT(20) DEF RetainInv, NamedSafe
    <2> HIDE DEF m
    <2> QED BY <1>1, <2>1, <2>2, Zenon
  <1>9. \A n \in 1..Len(out') : out'[n].k = "prev" /\ SameTip(out', n + 1) /\ inc.st \notin {"boot", "exit"}
                                   => out'[n].id = future.id
    <2> SUFFICES ASSUME NEW n \in 1..Len(out'), out'[n].k = "prev", SameTip(out', n + 1),
                        inc.st \notin {"boot", "exit"}
                 PROVE  out'[n].id = future.id
      BY Zenon
    <2>1. n + 1 \in 1..Len(out) /\ n + 1 \in Nat \ {0} /\ n \in 1..Len(out) - 1 BY <1>1, OneLess, Zenon
    <2>2. out'[n] = out[n + 1] /\ SameTip(out, (n + 1) + 1) BY <1>1, <2>1, ZenonT(20)
    <2> QED BY <2>1, <2>2, Zenon DEF RetainInv, InStep
  <1> HIDE DEF m
  <1>10. SUFFICES /\ user'.future # 0 => Safe(user'.future)
                  /\ \A j \in user'.jobs : Safe(j)
                  /\ Cardinality(user'.jobs) <= Cap
                  /\ Newest(Believed(out', user'.jobs)) = Newest(Believed(out, user.jobs))
                  /\ inc.st \notin {"boot", "exit"} /\ SameTip(out', 1) => user'.future \in {0, future.id}
    <2>1. NamedSafe' BY <1>2, <1>8, <1>10, Zenon DEF RetainInv, NamedSafe, Safe, SafeNext, SafeIn
    <2>2. InStep' BY <1>2, <1>9, <1>10, Zenon DEF RetainInv, InStep
    <2> QED BY <1>7, <1>10, <2>1, <2>2, Zenon DEF RetainInv
  <1>11. CASE m.k = "new" /\ ~m.future
    <2>1. user' = [user EXCEPT !.jobs = Newest(user.jobs \cup {m.id})] BY <1>1, <1>11, Zenon DEF UserRead
    <2>2. user'.jobs = Newest(user.jobs \cup {m.id}) /\ user'.future = user.future BY <1>4, <2>1
    <2>3. Cardinality(user'.jobs) <= Cap /\ user'.jobs \in SUBSET (user.jobs \cup {m.id})
      <3> DEFINE S == user.jobs \cup {m.id}
      <3>1. S \in SUBSET (0..MaxId) BY <1>4
      <3> HIDE DEF S
      <3>2. Newest(S) \in SUBSET S /\ Cardinality(Newest(S)) <= Cap BY <1>4, <3>1, CapBounds, Zenon
      <3> QED BY <2>2, <3>2, ZenonT(20) DEF S
    <2>4. RefreshAt(out, 1) <=> SameTip(out, 1) BY <1>11, ZenonT(20) DEF RefreshAt, m
    <2>5. Newest(Believed(out', user'.jobs)) = Newest(Believed(out, user.jobs))
      <3>1. CASE SameTip(out, 1)
        <4>1. Believed(out, user.jobs) = (user.jobs \cup {m.id}) \cup Refreshes(out')
          BY <1>1, <2>4, <3>1, ZenonT(20) DEF Believed
        <4>2. Believed(out', user'.jobs) = Newest(user.jobs \cup {m.id}) \cup Refreshes(out')
          BY <1>5, <1>6, <2>2, <3>1, ZenonT(20) DEF Believed
        <4>3. Refreshes(out') \in SUBSET (0..MaxId) BY <4>1, BelievedIds, ZenonT(20)
        <4> DEFINE X == user.jobs \cup {m.id}
                   Y == Refreshes(out')
        <4>4. X \in SUBSET (0..MaxId) /\ Y \in SUBSET (0..MaxId) BY <1>4, <4>3
        <4> HIDE DEF X, Y
        <4>5. Newest(Newest(X) \cup Y) = Newest(X \cup Y) BY <1>4, <4>4, CapAbsorbs, Zenon
        <4> QED BY <4>1, <4>2, <4>5, ZenonT(20) DEF X, Y
      <3>2. CASE ~SameTip(out, 1)
        BY <1>1, <1>5, <1>6, <1>11, <2>4, <3>2, Zenon DEF Believed
      <3> QED BY <3>1, <3>2, Zenon
    <2>6. user'.future # 0 => Safe(user'.future) BY <2>2, ZenonT(20) DEF RetainInv, NamedSafe
    <2>7. \A j \in user'.jobs : Safe(j) BY <1>3, <1>11, <2>3, ZenonT(20) DEF RetainInv, NamedSafe
    <2>8. inc.st \notin {"boot", "exit"} /\ SameTip(out', 1) => user'.future \in {0, future.id}
      BY <1>5, <1>6, <1>11, <2>2, Zenon DEF RetainInv, InStep
    <2> QED BY <2>3, <2>5, <2>6, <2>7, <2>8, Zenon
  <1>12. CASE m.k = "prev"
    <2>1. user'.future = m.id /\ user'.jobs = {} BY <1>1, <1>12 DEF UserRead
    <2>2. ~RefreshAt(out, 1) BY <1>12 DEF RefreshAt, m
    <2>3. Believed(out', user'.jobs) = Believed(out, user.jobs)
      BY <1>1, <1>5, <1>12, <2>1, <2>2, ZenonT(20) DEF Believed
    <2>4. inc.st \notin {"boot", "exit"} /\ SameTip(out', 1) => m.id = future.id
      <3>1. 1 \in 1..Len(out) /\ out[1].k = "prev" BY <1>4, <1>12, Zenon DEF m
      <3>2. SameTip(out', 1) => SameTip(out, 1 + 1)
        <4>1. 1 + 1 = 2 OBVIOUS
        <4> QED BY <1>6, <4>1, Zenon
      <3> QED BY <3>1, <3>2, Zenon DEF RetainInv, InStep, m
    <2> QED BY <1>3, <1>12, <2>1, <2>3, <2>4, CapEmpty, ZenonT(20)
  <1>13. CASE ~(m.k = "new" /\ ~m.future) /\ m.k # "prev"
    <2>1. user' = user BY <1>1, <1>13 DEF UserRead
    <2>2. ~RefreshAt(out, 1) BY <1>13 DEF RefreshAt, m
    <2>3. Believed(out', user'.jobs) = Believed(out, user.jobs)
      BY <1>1, <1>5, <1>6, <1>13, <2>1, <2>2, ZenonT(20) DEF Believed
    <2> QED BY <1>5, <1>6, <1>13, <2>1, <2>3, Zenon DEF RetainInv, NamedSafe, InStep
  <1> QED BY <1>11, <1>12, <1>13, Zenon

\* Every step keeps the second invariant.
LEMMA RetainStep == CapFacts /\ FlowInv /\ RetainInv /\ [Next]_vars => RetainInv'
  BY RetainTasks, RetainInbox, RetainIncoming, RetainBootPublish, RetainMonPublish, RetainStore,
     RetainUserRead, ZenonT(20)
     DEF Next, Stopped, RuntimeStep
=============================================================================
