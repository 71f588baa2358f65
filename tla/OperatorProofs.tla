--------------------------- MODULE OperatorProofs ---------------------------
(***************************************************************************)
(* Proofs about the two services with which operators change a copy of a   *)
(* row and write it back, for any number of calls that overlap: the rules  *)
(* of RuleControl, and after them the incidents of IncidentResponse, whose *)
(* operations are those of Inc.  The two share no state; what they have in *)
(* common is that nothing compares the version of the row, and comes first.*)
(***************************************************************************)
EXTENDS RuleControl, Incidents, SequenceTheorems, TLAPS

-----------------------------------------------------------------------------
(* Changes. *)

\* r is the row as it was first, or as one of the changes left it.
Known(first, log, r) == \E i \in 0..Len(log) : r = RowAfter(first, log, i)

\* Where no two changes gave the row the same version nothing was overwritten, and
\* the versions count the changes.
Counted(first, log) ==
    VersionsDiffer(log) =>
        /\ NothingOverwritten(first, log)
        /\ \A i \in 0..Len(log) : RowAfter(first, log, i).version = first.version + i

\* At first there is the row, and no change.
LEMMA NoChanges ==
    ASSUME NEW first, first.version \in Int
    PROVE  Known(first, <<>>, first) /\ Counted(first, <<>>)
<1>1. Len(<<>>) = 0 /\ DOMAIN <<>> = {} /\ 0..0 = {0}
  OBVIOUS
<1>2. RowAfter(first, <<>>, 0) = first
  BY DEF RowAfter
<1> QED
  BY <1>1, <1>2 DEF Known, Counted, NothingOverwritten

\* One more change of a row that is known.  If it is not of the last, another change
\* was made of the same row and gave it the same version.
LEMMA OneMoreChange ==
    ASSUME NEW Row, \A r \in Row : r.version \in Int, NEW first \in Row,
           NEW Change, \A d \in Change : d.from \in Row /\ d.to \in Row,
           NEW log \in Seq(Change), NEW c \in Change, c.to.version = c.from.version + 1,
           Known(first, log, c.from), Counted(first, log)
    PROVE  /\ Append(log, c) \in Seq(Change)
           /\ Counted(first, Append(log, c))
           /\ Known(first, Append(log, c), c.to)
           /\ \A r : Known(first, log, r) => Known(first, Append(log, c), r)
<1> DEFINE n == Len(log)  more == Append(log, c)
<1>1. /\ more \in Seq(Change) /\ n \in Nat /\ Len(more) = n + 1
      /\ DOMAIN log = 1..n /\ DOMAIN more = 1..(n + 1)
      /\ \A i \in 1..n : more[i] = log[i]
      /\ more[n + 1] = c
  BY AppendProperties, LenProperties
<1>2. \A i \in 1..n : log[i] \in Change
  BY ElementOfSeq
<1> HIDE DEF n, more
<1>3. \A i \in 0..n : RowAfter(first, more, i) = RowAfter(first, log, i)
  BY <1>1 DEF RowAfter
<1>4. RowAfter(first, more, n + 1) = c.to
  BY <1>1 DEF RowAfter
<1>5. \A r : Known(first, log, r) => Known(first, more, r)
  BY <1>1, <1>3 DEF Known, n
<1>6. Known(first, more, c.to)
  BY <1>1, <1>4 DEF Known
<1>7. ASSUME VersionsDiffer(more)
      PROVE  /\ NothingOverwritten(first, more)
             /\ \A i \in 0..(n + 1) : RowAfter(first, more, i).version = first.version + i
  <2>1. VersionsDiffer(log)
    BY <1>1, <1>7 DEF VersionsDiffer
  <2>2. /\ \A i \in 1..n : log[i].from = RowAfter(first, log, i - 1)
        /\ \A i \in 0..n : RowAfter(first, log, i).version = first.version + i
    BY <1>1, <2>1 DEF Counted, NothingOverwritten, n
  <2>3. PICK k \in 0..n : c.from = RowAfter(first, log, k)
    BY DEF Known, n
  <2>4. c.to.version = first.version + k + 1
    BY <2>2, <2>3
  <2>5. k = n
    <3> SUFFICES ASSUME k < n PROVE FALSE
      BY <1>1
    <3>1. k + 1 \in 1..n /\ n + 1 \in 1..(n + 1) /\ k + 1 \in 1..(n + 1) /\ k + 1 # n + 1
      BY <1>1
    <3>2. RowAfter(first, log, k + 1) = more[k + 1].to
      BY <1>1, <3>1 DEF RowAfter
    <3>3. RowAfter(first, log, k + 1).version = first.version + (k + 1)
      BY <2>2, <3>1
    <3>4. more[k + 1].to.version = more[n + 1].to.version
      BY <1>1, <2>4, <3>2, <3>3
    <3> QED
      BY <1>1, <1>7, <3>1, <3>4 DEF VersionsDiffer
  <2>6. \A i \in 1..(n + 1) : more[i].from = RowAfter(first, more, i - 1)
    <3> SUFFICES ASSUME NEW i \in 1..(n + 1)
                 PROVE  more[i].from = RowAfter(first, more, i - 1)
      OBVIOUS
    <3>1. CASE i = n + 1
      <4>1. i - 1 = n /\ n \in 0..n
        BY <1>1, <3>1
      <4>2. c.from = RowAfter(first, more, n)
        BY <1>3, <2>3, <2>5, <4>1
      <4> QED
        BY <1>1, <3>1, <4>1, <4>2
    <3>2. CASE i \in 1..n
      <4>1. i - 1 \in 0..n
        BY <1>1, <3>2
      <4> QED
        BY <1>1, <1>3, <2>2, <3>2, <4>1
    <3> QED
      BY <1>1, <3>1, <3>2
  <2>7. \A i \in 0..(n + 1) : RowAfter(first, more, i).version = first.version + i
    <3> SUFFICES ASSUME NEW i \in 0..(n + 1)
                 PROVE  RowAfter(first, more, i).version = first.version + i
      OBVIOUS
    <3>1. CASE i = n + 1
      <4>1. PICK v \in Int : v = first.version
        OBVIOUS
      <4>2. c.to.version = v + n + 1
        BY <2>4, <2>5, <4>1
      <4>3. v + n + 1 = v + (n + 1)
        BY <1>1
      <4> QED
        BY <1>4, <3>1, <4>1, <4>2, <4>3
    <3>2. CASE i \in 0..n
      BY <1>3, <2>2, <3>2
    <3> QED
      BY <1>1, <3>1, <3>2
  <2> QED
    BY <1>1, <2>6, <2>7 DEF NothingOverwritten
<1>8. Counted(first, more)
  BY <1>1, <1>7 DEF Counted
<1> QED
  BY <1>1, <1>5, <1>6, <1>8 DEF more

-----------------------------------------------------------------------------
(* Rules. *)

\* What the row of the rule, or a copy of it, is like while a switch holds.
Agrees(r) ==
    /\ r.mode \in {holds} \cup modes
    /\ holds # "paused" => r.enabled
    /\ holds = "paused" /\ r.enabled => on

\* While a switch holds, every call in flight is a patch, has read the row since,
\* and is among those the observers know.
Since ==
    holds # NoMode =>
        /\ row # NoRule /\ Agrees(row)
        /\ \A q \in InFlight :
             /\ ~IsSwitch(ask[q]) /\ Agrees(copy[q])
             /\ ask[q].mode \in modes \cup {NoMode}
             /\ ask[q].enabled => on

\* Once there is a rule, its row and every copy of it are what Create or a change
\* left, and the versions count the changes as long as they differ.
Followed ==
    /\ row = NoRule => changes = <<>>
    /\ row # NoRule =>
         /\ original \in Rule /\ Counted(original, changes)
         /\ Known(original, changes, row)
         /\ \A q \in InFlight : Known(original, changes, copy[q])

IInv == TypeOK /\ Since /\ Followed

-----------------------------------------------------------------------------
\* What the operations make of a rule is a rule, one version on.
LEMMA ChangedRule ==
    ASSUME NEW r \in Rule, NEW a \in Asks
    PROVE  Changed(r, a) \in Rule /\ Changed(r, a).version = r.version + 1
  <1> DEFINE M == Modes \cup (RequestModes \ {NoMode})
  <1>1. a.op \in {"pause", "enable", "setMode", "update"} /\ a.enabled \in BOOLEAN
    BY DEF Asks
  <1>2. a.op = "setMode" => a.mode \in Modes
    BY DEF Asks
  <1>3. a.op = "update" => a.mode \in RequestModes
    BY DEF Asks
  <1>4. r.mode \in M /\ r.enabled \in BOOLEAN /\ r.version \in Int
    BY DEF Rule
  <1>5. "active" \in M /\ "paused" \in M /\ Modes \subseteq M
    BY DEF Modes
  <1>6. \A m \in M, e \in BOOLEAN : Switched(r, m, e) \in Rule /\ Switched(r, m, e).version = r.version + 1
    BY <1>4 DEF Switched, Rule
  <1> HIDE DEF M
  <1>7. CASE a.op = "pause"
    BY <1>5, <1>6, <1>7 DEF Changed, Pause
  <1>8. CASE a.op = "enable"
    BY <1>5, <1>6, <1>8 DEF Changed, Enable
  <1>9. CASE a.op = "setMode"
    <2>1. a.mode \in M /\ (a.mode # "paused") \in BOOLEAN
      BY <1>2, <1>5, <1>9
    <2>q. QED BY <1>6, <1>9, <2>1 DEF Changed, SetMode
  <1>10. CASE a.op = "update"
    <2>1. Changed(r, a) = Patch(r, a.mode, a.enabled)
      BY <1>10 DEF Changed
    <2>2. PICK e \in BOOLEAN : e = (a.enabled \/ r.enabled)
      OBVIOUS
    <2>3. PICK m \in M : m = IF a.mode = NoMode THEN r.mode ELSE a.mode
      BY <1>3, <1>4, <1>10 DEF M
    <2>4. Changed(r, a) = Switched(r, m, e)
      BY <2>1, <2>2, <2>3 DEF Patch
    <2>q. QED BY <1>6, <2>4
  <1>q. QED BY <1>1, <1>7, <1>8, <1>9, <1>10

\* A patch keeps what agrees with a switch in agreement with it.
LEMMA PatchAgrees ==
    ASSUME NEW r \in Rule, NEW a \in Asks, ~IsSwitch(a), Agrees(r),
           a.mode \in modes \cup {NoMode}, a.enabled => on
    PROVE  Agrees(Changed(r, a))
  <1>1. a.op = "update"
    BY DEF IsSwitch
  <1>2. Changed(r, a) = Patch(r, a.mode, a.enabled)
    BY <1>1 DEF Changed
  <1>3. Changed(r, a).mode = IF a.mode = NoMode THEN r.mode ELSE a.mode
    BY <1>2 DEF Patch, Switched
  <1>4. Changed(r, a).enabled = (a.enabled \/ r.enabled)
    BY <1>2 DEF Patch, Switched
  <1>q. QED BY <1>3, <1>4 DEF Agrees

\* A switch makes a rule that agrees with it.
LEMMA SwitchAgrees ==
    ASSUME NEW r \in Rule, NEW a \in Asks, IsSwitch(a)
    PROVE  /\ SwitchMode(a) \in Modes /\ Changed(r, a).mode = SwitchMode(a)
           /\ SwitchMode(a) # "paused" => Changed(r, a).enabled
           /\ SwitchMode(a) = "paused" => ~Changed(r, a).enabled
  BY DEF IsSwitch, SwitchMode, Asks, Changed, Pause, Enable, SetMode, Switched, Modes

\* A row that is written is followed like the one before it.
LEMMA WriteFollowed ==
    ASSUME TypeOK, Followed, NEW q \in InFlight, Write(q), original' = original
    PROVE  /\ row' \in Rule /\ row' # NoRule
           /\ changes' \in Seq([from : Rule, to : Rule])
           /\ Counted(original, changes') /\ Known(original, changes', row')
           /\ \A r : Known(original, changes, r) => Known(original, changes', r)
  <1> DEFINE C == [from : Rule, to : Rule]  c == [from |-> copy[q], to |-> row']
  <1>1. copy[q] \in Rule /\ ask[q] \in Asks /\ row # NoRule
    BY DEF TypeOK, InFlight
  <1>2. row' \in Rule /\ row'.version = copy[q].version + 1
    BY <1>1, ChangedRule DEF Write
  <1>3. c \in C /\ c.from = copy[q] /\ c.to = row' /\ changes' = Append(changes, c)
    BY <1>1, <1>2 DEF Write
  <1>4. changes \in Seq(C) /\ \A d \in C : d.from \in Rule /\ d.to \in Rule
    BY DEF TypeOK
  <1>5. original \in Rule /\ Counted(original, changes) /\ Known(original, changes, copy[q])
    BY <1>1 DEF Followed
  <1>6. \A r \in Rule : r.version \in Int
    BY DEF Rule
  <1>7. row' # NoRule
    BY <1>2, RuleAssumption
  <1> HIDE DEF C, c
  <1>8. PICK d \in C : d = c
    BY <1>3
  <1>9. d.to.version = d.from.version + 1 /\ Known(original, changes, d.from)
    BY <1>2, <1>3, <1>5, <1>8
  <1>10. /\ Append(changes, d) \in Seq(C)
         /\ Counted(original, Append(changes, d))
         /\ Known(original, Append(changes, d), d.to)
         /\ \A r : Known(original, changes, r) => Known(original, Append(changes, d), r)
    BY <1>4, <1>5, <1>6, <1>9, OneMoreChange
  <1>q. QED BY <1>2, <1>3, <1>7, <1>8, <1>10 DEF C

-----------------------------------------------------------------------------
\* At first there is no rule.
LEMMA InitHolds == Init => IInv
  <1> SUFFICES ASSUME Init PROVE IInv
    OBVIOUS
  <1> USE DEF Init
  <1>1. InFlight = {}
    BY DEF InFlight
  <1>2. changes \in Seq([from : Rule, to : Rule])
    BY EmptySeq
  <1>3. TypeOK
    BY <1>1, <1>2, RuleAssumption DEF TypeOK
  <1>4. Since
    BY DEF Since
  <1>5. Followed
    BY DEF Followed
  <1>q. QED BY <1>3, <1>4, <1>5 DEF IInv

\* The rule is created: there has been no call yet.
LEMMA CreateKeeps ==
    ASSUME IInv, NEW q \in Requests, Create(q)
    PROVE  IInv'
  <1> USE DEF IInv, Create, observers
  <1>1. PICK m \in RequestModes, e \in BOOLEAN, v \in RequestVersions : row' = Normalize(m, e, v)
    OBVIOUS
  <1>2. row' \in Rule /\ row' # NoRule /\ row'.version \in Int
    <2>1. PICK n \in BOOLEAN : n = (e \/ m # "paused")
      OBVIOUS
    <2>2. PICK k \in Modes \cup (RequestModes \ {NoMode}) : k = IF m = NoMode THEN "active" ELSE m
      BY DEF Modes
    <2>3. PICK w \in Int : w = IF v = 0 THEN 1 ELSE v
      BY RuleAssumption
    <2>4. row' = [mode |-> k, enabled |-> n, version |-> w]
      BY <1>1, <2>1, <2>2, <2>3 DEF Normalize
    <2>q. QED BY <2>4, RuleAssumption DEF Rule
  <1>3. \A p \in Requests : pc[p] = "new"
    BY DEF TypeOK
  <1>4. InFlight' = {} /\ InFlight = {}
    BY <1>3 DEF InFlight, TypeOK
  <1>5. TypeOK'
    BY <1>2, <1>4, RuleAssumption DEF TypeOK
  <1>6. Since'
    BY <1>3, <1>4 DEF Since
  <1>7. original' = row' /\ changes' = <<>>
    BY DEF Followed
  <1>8. Followed'
    BY <1>2, <1>4, <1>7, NoChanges DEF Followed
  <1>q. QED BY <1>5, <1>6, <1>8

\* An operation reads the row.
LEMMA GetKeeps ==
    ASSUME IInv, NEW q \in Requests, Get(q)
    PROVE  IInv'
  <1> USE DEF IInv, Get
  <1>1. PICK a \in Asks :
          /\ ask' = [ask EXCEPT ![q] = a]
          /\ holds' = IF IsSwitch(a) THEN NoMode ELSE holds
          /\ modes' = IF IsSwitch(a) THEN {} ELSE modes \cup ({a.mode} \ {NoMode})
          /\ on' = (~IsSwitch(a) /\ (on \/ a.enabled))
    OBVIOUS
  <1>2. InFlight' = InFlight \cup {q}
    BY DEF InFlight, TypeOK
  <1>3. a.enabled \in BOOLEAN /\ (~IsSwitch(a) => a.mode \in RequestModes)
    BY DEF Asks, IsSwitch
  <1>4. TypeOK'
    <2>1. ask' \in [Requests -> Asks \cup {NoAsk}] /\ copy' \in [Requests -> Rule \cup {NoRule}]
      BY <1>1 DEF TypeOK
    <2>2. holds' \in Modes \cup {NoMode} /\ modes' \subseteq RequestModes \ {NoMode}
      BY <1>1, <1>3 DEF TypeOK
    <2>3. on' \in BOOLEAN
      BY <1>1, <1>3 DEF TypeOK
    <2>4. \A p \in InFlight' : copy'[p] # NoRule /\ ask'[p] \in Asks
      BY <1>1, <1>2 DEF TypeOK, InFlight
    <2>5. \A p \in Requests : pc'[p] # "new" => row' # NoRule
      BY DEF TypeOK
    <2>6. pc' \in [Requests -> {"new", "update", "done", "failed"}]
      BY DEF TypeOK
    <2>q. QED BY <2>1, <2>2, <2>3, <2>4, <2>5, <2>6 DEF TypeOK
  <1>5. Since'
    <2>1. CASE IsSwitch(a)
      BY <1>1, <2>1 DEF Since
    <2>2. CASE ~IsSwitch(a)
      <3>1. holds' = holds /\ modes \subseteq modes' /\ (on => on')
        BY <1>1, <2>2
      <3>2. a.mode \in modes' \cup {NoMode} /\ (a.enabled => on')
        BY <1>1, <2>2
      <3>3. \A p \in InFlight : ask'[p] = ask[p] /\ copy'[p] = copy[p]
        BY <1>1 DEF InFlight, TypeOK
      <3>4. ask'[q] = a /\ copy'[q] = row
        BY <1>1 DEF TypeOK
      <3>5. ASSUME holds' # NoMode
            PROVE  /\ row' # NoRule /\ Agrees(row)'
                   /\ \A p \in InFlight' :
                        /\ ~IsSwitch(ask[p])' /\ Agrees(copy[p])'
                        /\ ask'[p].mode \in modes' \cup {NoMode}
                        /\ ask'[p].enabled => on'
        <4>1. row # NoRule /\ Agrees(row) /\ row' = row
          BY <3>1, <3>5 DEF Since
        <4>2. Agrees(row)'
          BY <3>1, <4>1 DEF Agrees
        <4>3. ASSUME NEW p \in InFlight
              PROVE  /\ ~IsSwitch(ask[p])' /\ Agrees(copy[p])'
                     /\ ask'[p].mode \in modes' \cup {NoMode}
                     /\ ask'[p].enabled => on'
          <5>1. /\ ~IsSwitch(ask[p]) /\ Agrees(copy[p])
                /\ ask[p].mode \in modes \cup {NoMode}
                /\ ask[p].enabled => on
            BY <3>1, <3>5 DEF Since
          <5>q. QED BY <3>1, <3>3, <5>1 DEF Agrees, IsSwitch
        <4>4. /\ ~IsSwitch(ask[q])' /\ Agrees(copy[q])'
              /\ ask'[q].mode \in modes' \cup {NoMode}
              /\ ask'[q].enabled => on'
          BY <2>2, <3>2, <3>4, <4>1, <4>2 DEF Agrees, IsSwitch
        <4>q. QED BY <1>2, <4>1, <4>2, <4>3, <4>4
      <3>q. QED BY <3>5 DEF Since
    <2>q. QED BY <2>1, <2>2
  <1>6. Followed'
    <2>1. \A p \in InFlight' : p # q => p \in InFlight /\ copy'[p] = copy[p]
      BY <1>2 DEF InFlight, TypeOK
    <2>2. copy'[q] = row
      BY DEF TypeOK
    <2>q. QED BY <2>1, <2>2 DEF Followed
  <1>q. QED BY <1>4, <1>5, <1>6

\* An operation writes its copy back and returns.
LEMMA UpdateKeeps ==
    ASSUME IInv, NEW q \in Requests, Update(q)
    PROVE  IInv'
  <1> USE DEF IInv, Update
  <1>1. q \in InFlight /\ InFlight' = InFlight \ {q}
    BY DEF InFlight, TypeOK
  <1>2. copy[q] \in Rule /\ ask[q] \in Asks /\ row' = Changed(copy[q], ask[q]) /\ row # NoRule
    BY <1>1 DEF TypeOK, Write
  <1>3. /\ row' \in Rule /\ row' # NoRule
        /\ changes' \in Seq([from : Rule, to : Rule])
        /\ Counted(original, changes') /\ Known(original, changes', row')
        /\ \A r : Known(original, changes, r) => Known(original, changes', r)
    BY <1>1, WriteFollowed
  <1>4. TypeOK'
    <2>1. pc' \in [Requests -> {"new", "update", "done", "failed"}]
      BY DEF TypeOK
    <2>2. holds' \in Modes \cup {NoMode} /\ modes' \subseteq RequestModes \ {NoMode} /\ on' \in BOOLEAN
      BY <1>2, SwitchAgrees DEF TypeOK, observers
    <2>3. \A p \in InFlight' : copy'[p] # NoRule /\ ask'[p] \in Asks
      BY <1>1 DEF TypeOK
    <2>q. QED BY <1>3, <2>1, <2>2, <2>3 DEF TypeOK
  <1>5. Since'
    <2>1. CASE IsSwitch(ask[q]) /\ InFlight = {q}
      <3>1. holds' = SwitchMode(ask[q]) /\ modes' = {} /\ on' = FALSE /\ InFlight' = {}
        BY <1>1, <2>1
      <3>2. Agrees(row)'
        BY <1>2, <2>1, <3>1, SwitchAgrees DEF Agrees
      <3>q. QED BY <1>3, <3>1, <3>2 DEF Since
    <2>2. CASE ~(IsSwitch(ask[q]) /\ InFlight = {q})
      <3>1. holds' = holds /\ modes' = modes /\ on' = on /\ ask' = ask /\ copy' = copy
        BY <2>2 DEF observers
      <3>2. ASSUME holds # NoMode PROVE Agrees(row)'
        <4>1. /\ ~IsSwitch(ask[q]) /\ Agrees(copy[q])
              /\ ask[q].mode \in modes \cup {NoMode}
              /\ ask[q].enabled => on
          BY <1>1, <3>2 DEF Since
        <4>2. Agrees(Changed(copy[q], ask[q]))
          BY <1>2, <4>1, PatchAgrees
        <4>q. QED BY <1>2, <3>1, <4>2 DEF Agrees
      <3>q. QED BY <1>1, <1>3, <3>1, <3>2 DEF Since, Agrees, IsSwitch
    <2>q. QED BY <2>1, <2>2
  <1>6. Followed'
    <2>1. \A p \in InFlight' : p \in InFlight /\ copy'[p] = copy[p]
      BY <1>1
    <2>q. QED BY <1>2, <1>3, <2>1 DEF Followed
  <1>q. QED BY <1>4, <1>5, <1>6

\* A call that ends without an answer, having written its copy or not.
LEMMA EndKeeps ==
    ASSUME IInv, NEW q \in Requests, Refuse(q) \/ Fail(q)
    PROVE  IInv'
  <1> USE DEF IInv
  <1>1. /\ pc[q] = "update" /\ pc' = [pc EXCEPT ![q] = "failed"]
        /\ Write(q) \/ UNCHANGED <<row, changes>>
        /\ faults' \in Nat
        /\ UNCHANGED <<ask, copy, original, holds, modes, on>>
    BY DEF Refuse, Fail, observers, TypeOK
  <1>2. q \in InFlight /\ InFlight' = InFlight \ {q}
    BY <1>1 DEF InFlight, TypeOK
  <1>3. copy[q] \in Rule /\ ask[q] \in Asks /\ row # NoRule
    BY <1>1, <1>2 DEF TypeOK
  <1>4. /\ row' \in Rule /\ row' # NoRule /\ row' \in {row, Changed(copy[q], ask[q])}
        /\ changes' \in Seq([from : Rule, to : Rule])
        /\ Counted(original, changes') /\ Known(original, changes', row')
        /\ \A r : Known(original, changes, r) => Known(original, changes', r)
    <2>1. CASE Write(q)
      BY <1>1, <1>2, <2>1, WriteFollowed DEF Write
    <2>2. CASE UNCHANGED <<row, changes>>
      BY <1>3, <2>2 DEF TypeOK, Followed
    <2>q. QED BY <1>1, <2>1, <2>2
  <1>5. TypeOK'
    BY <1>1, <1>2, <1>4 DEF TypeOK
  <1>6. Since'
    <2>1. ASSUME holds # NoMode PROVE Agrees(row)'
      <3>1. /\ ~IsSwitch(ask[q]) /\ Agrees(copy[q])
            /\ ask[q].mode \in modes \cup {NoMode}
            /\ ask[q].enabled => on
        BY <1>2, <2>1 DEF Since
      <3>2. Agrees(Changed(copy[q], ask[q])) /\ Agrees(row)
        BY <1>3, <2>1, <3>1, PatchAgrees DEF Since
      <3>q. QED BY <1>1, <1>4, <3>2 DEF Agrees
    <2>q. QED BY <1>1, <1>2, <1>4, <2>1 DEF Since, Agrees, IsSwitch
  <1>7. Followed'
    <2>1. \A p \in InFlight' : p \in InFlight /\ copy'[p] = copy[p]
      BY <1>1, <1>2
    <2>2. original \in Rule /\ original' = original
      BY <1>1, <1>3 DEF Followed
    <2>q. QED BY <1>3, <1>4, <2>1, <2>2 DEF Followed
  <1>q. QED BY <1>5, <1>6, <1>7

\* Every operation keeps the invariant.
LEMMA NextKeeps == IInv /\ [Next]_vars => IInv'
  <1> SUFFICES ASSUME IInv, [Next]_vars PROVE IInv'
    OBVIOUS
  <1>1. CASE UNCHANGED vars
    <2>1. UNCHANGED <<row, pc, ask, copy, original, changes, holds, modes, on, faults>>
      BY <1>1 DEF vars, observers
    <2>2. InFlight' = InFlight
      BY <2>1 DEF InFlight
    <2>3. TypeOK' /\ Followed'
      BY <2>1, <2>2 DEF IInv, TypeOK, Followed
    <2>4. Since'
      BY <2>1, <2>2 DEF IInv, Since, Agrees, IsSwitch
    <2>q. QED BY <2>3, <2>4 DEF IInv
  <1>2. ASSUME NEW q \in Requests, Create(q) PROVE IInv'
    BY <1>2, CreateKeeps
  <1>3. ASSUME NEW q \in Requests, Get(q) PROVE IInv'
    BY <1>3, GetKeeps
  <1>4. ASSUME NEW q \in Requests, Update(q) PROVE IInv'
    BY <1>4, UpdateKeeps
  <1>5. ASSUME NEW q \in Requests, Refuse(q) \/ Fail(q) PROVE IInv'
    BY <1>5, EndKeeps
  <1>q. QED BY <1>1, <1>2, <1>3, <1>4, <1>5 DEF Next

\* The invariant holds in every behaviour.
THEOREM Invariance == Spec => []IInv
  BY InitHolds, NextKeeps, PTL DEF Spec

\* A switch that was acknowledged alone holds, however many calls overlap after it.
THEOREM SwitchStands == Spec => []SwitchHolds
  <1>1. IInv => SwitchHolds
    BY DEF IInv, Since, Agrees, SwitchHolds
  <1>q. QED BY <1>1, Invariance, PTL

\* A change of a rule is overwritten only where two changes gave it one version.
THEOREM OverwritesAreSeen == Spec => []OverwritesShow
  <1>1. IInv => OverwritesShow
    <2>1. VersionsDiffer(<<>>) => NothingOverwritten(original, <<>>)
      BY DEF NothingOverwritten
    <2>q. QED BY <2>1 DEF IInv, Followed, Counted, OverwritesShow
  <1>q. QED BY <1>1, Invariance, PTL

\* The state keeps its type.
THEOREM Typed == Spec => []TypeOK
  <1>1. IInv => TypeOK
    BY DEF IInv
  <1>q. QED BY <1>1, Invariance, PTL

-----------------------------------------------------------------------------
(* Incidents: the service has a row, and calls, of its own. *)

CONSTANT Texts

VARIABLES seen, errors

Inc == INSTANCE IncidentResponse

\* A row of incidents, and what a call has made of it.
IncidentRow == [status : Statuses \cup {"open", "in_progress", "resolved", "escalated"},
                assignee : Assignees, dated : BOOLEAN, version : Int]

IncidentChange == [call : IncidentCalls, from : IncidentRow, to : IncidentRow]

IncidentTyped ==
    /\ incident \in IncidentRow /\ created \in IncidentRow
    /\ trail \in Seq(IncidentCalls) /\ wrote \in Seq(IncidentChange)
    /\ stage \in [IncidentCalls -> {"new", "update", "action", "done", "failed"}]
    /\ asked \in [IncidentCalls -> Inc!Asks \cup {Inc!NoAsk}]
    /\ seen \in [IncidentCalls -> IncidentRow]

\* A call under way knows what is asked of it.
Knows == \A q \in InHand : asked[q] \in Inc!Asks

\* A call writes before it adds its action, and adds it at its end.
WritesThenTells ==
    /\ \A q \in Members(trail) : q \in Writers /\ stage[q] = "done"
    /\ \A q \in IncidentCalls : stage[q] = "action" => q \in Writers

\* The row and every copy of it are what Create or a change left, and the versions
\* count the changes as long as they differ.
IncidentFollowed ==
    /\ Counted(created, wrote)
    /\ Known(created, wrote, incident)
    /\ \A q \in IncidentCalls : stage[q] = "update" => Known(created, wrote, seen[q])

IncidentInv == IncidentTyped /\ Knows /\ TrailIsTrue /\ WritesThenTells /\ IncidentFollowed

\* Appending to a sequence leaves its elements and adds one.
LEMMA MembersAppend ==
    ASSUME NEW S, NEW s \in Seq(S), NEW x \in S
    PROVE  /\ Append(s, x) \in Seq(S) /\ Len(s) \in Nat
           /\ DOMAIN s = 1..Len(s) /\ DOMAIN Append(s, x) = 1..(Len(s) + 1)
           /\ \A i \in 1..Len(s) : i \in 1..(Len(s) + 1) /\ Append(s, x)[i] = s[i]
           /\ Append(s, x)[Len(s) + 1] = x /\ Len(s) + 1 \in 1..(Len(s) + 1)
           /\ Members(Append(s, x)) = Members(s) \cup {x}
<1>1. /\ Append(s, x) \in Seq(S) /\ Len(s) \in Nat /\ Len(Append(s, x)) = Len(s) + 1
      /\ DOMAIN s = 1..Len(s) /\ DOMAIN Append(s, x) = 1..(Len(s) + 1)
      /\ \A i \in 1..Len(s) : Append(s, x)[i] = s[i]
      /\ Append(s, x)[Len(s) + 1] = x
  BY AppendProperties, LenProperties
<1>2. /\ \A i \in 1..Len(s) : i \in 1..(Len(s) + 1)
      /\ Len(s) + 1 \in 1..(Len(s) + 1)
  BY <1>1
<1>3. ASSUME NEW y \in Members(Append(s, x)) PROVE y \in Members(s) \cup {x}
  BY <1>1, <1>3 DEF Members
<1>4. ASSUME NEW y \in Members(s) \cup {x} PROVE y \in Members(Append(s, x))
  BY <1>1, <1>2, <1>4 DEF Members
<1> QED
  BY <1>1, <1>2, <1>3, <1>4

\* What an operation makes of an incident is an incident, one version on.
LEMMA ChangedIncident ==
    ASSUME NEW r \in IncidentRow, NEW a \in Inc!Asks
    PROVE  /\ Inc!Changed(r, a) \in IncidentRow
           /\ Inc!Changed(r, a).version = r.version + 1
<1>1. /\ a.op \in {"assign", "act", "close", "escalate"}
      /\ a.op = "assign" => a.who \in Assignees
  BY DEF Inc!Asks
<1>2. PICK v \in IncidentRow : v = Inc!Versioned(r) /\ v.version = r.version + 1
  <2>1. Inc!Versioned(r) = [r EXCEPT !.version = r.version + 1]
    BY DEF Inc!Versioned
  <2>2. Inc!Versioned(r) \in IncidentRow /\ Inc!Versioned(r).version = r.version + 1
    BY <2>1 DEF IncidentRow
  <2> QED
    BY <2>2
<1>3. CASE a.op = "assign"
  <2>1. Inc!Changed(r, a) = [v EXCEPT !.assignee = a.who, !.status = "in_progress"]
    BY <1>2, <1>3 DEF Inc!Changed, Inc!Assign
  <2> QED
    BY <1>1, <1>2, <1>3, <2>1 DEF IncidentRow
<1>4. ASSUME NEW action
      PROVE  Inc!Act(r, action) \in IncidentRow /\ Inc!Act(r, action).version = r.version + 1
  <2>1. Inc!Act(r, action) \in {v, [v EXCEPT !.status = "resolved", !.dated = TRUE]}
    BY <1>2 DEF Inc!Act
  <2> QED
    BY <1>2, <2>1 DEF IncidentRow
<1>5. CASE a.op = "act"
  BY <1>4, <1>5 DEF Inc!Changed
<1>6. CASE a.op = "close"
  BY <1>4, <1>6 DEF Inc!Changed, Inc!Close
<1>7. CASE a.op = "escalate"
  <2>1. Inc!Changed(r, a) = [v EXCEPT !.status = "escalated"]
    BY <1>2, <1>7 DEF Inc!Changed, Inc!Escalate
  <2> QED
    BY <1>2, <1>7, <2>1 DEF IncidentRow
<1> QED
  BY <1>1, <1>3, <1>5, <1>6, <1>7

-----------------------------------------------------------------------------
\* At first there is an incident, whatever its request says, and no call.
LEMMA InitIncident == Inc!Init => IncidentInv
<1> SUFFICES ASSUME Inc!Init PROVE IncidentInv
  OBVIOUS
<1>1. /\ created = incident /\ trail = <<>> /\ wrote = <<>>
      /\ stage = [q \in IncidentCalls |-> "new"] /\ asked = [q \in IncidentCalls |-> Inc!NoAsk]
      /\ seen = [q \in IncidentCalls |-> incident]
  BY DEF Inc!Init
<1>2. Members(trail) = {} /\ DOMAIN trail = {} /\ InHand = {}
  BY <1>1 DEF Members, InHand
<1>3. incident \in IncidentRow /\ incident.version \in Int
  <2>1. PICK d \in Drafts : incident = Inc!Normalize(d)
    BY DEF Inc!Init
  <2>2. d \in [status : Statuses \cup {NoStatus}, assignee : Assignees, dated : BOOLEAN, version : Int]
    BY IncidentsAssumption
  <2>3. incident = [d EXCEPT !.status = IF d.status = NoStatus THEN "open" ELSE d.status]
    BY <2>1 DEF Inc!Normalize
  <2> QED
    BY <2>2, <2>3 DEF IncidentRow
<1>4. IncidentTyped
  <2>1. trail \in Seq(IncidentCalls) /\ wrote \in Seq(IncidentChange)
    BY <1>1, EmptySeq
  <2> QED
    BY <1>1, <1>3, <2>1 DEF IncidentTyped
<1>5. IncidentFollowed
  BY <1>1, <1>3, NoChanges DEF IncidentFollowed
<1> QED
  BY <1>1, <1>2, <1>4, <1>5 DEF IncidentInv, Knows, TrailIsTrue, WritesThenTells

\* A call reads the row.
LEMMA GetIncident == ASSUME IncidentInv, NEW q \in IncidentCalls, Inc!Get(q) PROVE IncidentInv'
<1> USE DEF IncidentInv
<1>1. PICK a \in Inc!Asks : asked' = [asked EXCEPT ![q] = a]
  BY DEF Inc!Get
<1>2. /\ stage[q] = "new" /\ stage' = [stage EXCEPT ![q] = "update"] /\ seen' = [seen EXCEPT ![q] = incident]
      /\ UNCHANGED <<incident, trail, created, wrote>>
  BY DEF Inc!Get
<1>3. IncidentTyped'
  BY <1>1, <1>2 DEF IncidentTyped
<1>4. Knows'
  BY <1>1, <1>2 DEF IncidentTyped, Knows, InHand
<1>5. TrailIsTrue' /\ Members(trail)' = Members(trail) /\ Writers' = Writers
  BY <1>2 DEF TrailIsTrue, Members, Writers
<1>6. WritesThenTells'
  BY <1>2, <1>5 DEF IncidentTyped, WritesThenTells
<1>7. IncidentFollowed'
  BY <1>2 DEF IncidentTyped, IncidentFollowed
<1> QED
  BY <1>3, <1>4, <1>5, <1>6, <1>7

\* A call writes its copy, changed; it may learn of an error all the same.
LEMMA WriteIncident ==
    ASSUME IncidentInv, NEW q \in IncidentCalls, stage[q] = "update", Inc!Write(q),
           NEW place \in {"action", "failed"}, stage' = [stage EXCEPT ![q] = place],
           UNCHANGED <<trail, asked, created, seen>>
    PROVE  IncidentInv'
<1> USE DEF IncidentInv
<1>1. asked[q] \in Inc!Asks /\ seen[q] \in IncidentRow
  BY DEF Knows, InHand, IncidentTyped
<1>2. incident' \in IncidentRow /\ incident'.version = seen[q].version + 1
  BY <1>1, ChangedIncident DEF Inc!Write
<1>3. PICK c \in IncidentChange :
        c.call = q /\ c.from = seen[q] /\ c.to = incident' /\ wrote' = Append(wrote, c)
  BY <1>1, <1>2 DEF Inc!Write, IncidentChange
<1>4. wrote' \in Seq(IncidentChange) /\ Writers \subseteq Writers' /\ q \in Writers'
  <2>1. wrote \in Seq(IncidentChange)
    BY DEF IncidentTyped
  <2> QED
    BY <1>3, <2>1, MembersAppend DEF Writers
<1>5. Members(trail)' = Members(trail) /\ q \notin Members(trail)
  BY DEF Members, WritesThenTells
<1>6. IncidentTyped'
  BY <1>2, <1>4 DEF IncidentTyped
<1>7. Knows'
  BY DEF Knows, InHand, IncidentTyped
<1>8. TrailIsTrue'
  BY <1>4, <1>5 DEF TrailIsTrue
<1>9. WritesThenTells'
  BY <1>4, <1>5 DEF WritesThenTells, IncidentTyped
<1>10. IncidentFollowed'
  <2>1. /\ \A r \in IncidentRow : r.version \in Int
        /\ \A d \in IncidentChange : d.from \in IncidentRow /\ d.to \in IncidentRow
    BY DEF IncidentRow, IncidentChange
  <2>2. created \in IncidentRow /\ wrote \in Seq(IncidentChange)
    BY DEF IncidentTyped
  <2>3. Known(created, wrote, c.from) /\ Counted(created, wrote) /\ c.to.version = c.from.version + 1
    BY <1>2, <1>3 DEF IncidentFollowed
  <2>4. /\ Counted(created, Append(wrote, c)) /\ Known(created, Append(wrote, c), c.to)
        /\ \A r : Known(created, wrote, r) => Known(created, Append(wrote, c), r)
    BY <2>1, <2>2, <2>3, OneMoreChange
  <2>5. Counted(created, wrote)' /\ Known(created, wrote, incident)'
    BY <1>3, <2>4
  <2>6. ASSUME NEW p \in IncidentCalls, stage'[p] = "update" PROVE Known(created, wrote, seen[p])'
    <3>1. Known(created, wrote, seen[p])
      BY <2>6 DEF IncidentFollowed, IncidentTyped
    <3>2. Known(created, Append(wrote, c), seen[p])
      BY <2>4, <3>1
    <3> QED
      BY <1>3, <3>2
  <2> QED
    BY <2>5, <2>6 DEF IncidentFollowed
<1> QED
  BY <1>6, <1>7, <1>8, <1>9, <1>10

\* A call whose update had no effect adds nothing; nor does one whose action is
\* not recorded.
LEMMA GiveUpIncident ==
    ASSUME IncidentInv, NEW q \in IncidentCalls, stage[q] \in {"update", "action"},
           NEW place \in {"failed", "done"}, stage' = [stage EXCEPT ![q] = place],
           UNCHANGED <<incident, trail, asked, created, seen, wrote>>
    PROVE  IncidentInv'
<1> USE DEF IncidentInv
<1>1. /\ Members(trail)' = Members(trail) /\ Writers' = Writers
      /\ q \notin Members(trail)
  BY DEF Members, Writers, WritesThenTells
<1>2. IncidentTyped' /\ Knows' /\ TrailIsTrue'
  BY <1>1 DEF IncidentTyped, Knows, InHand, TrailIsTrue
<1>3. WritesThenTells'
  BY <1>1 DEF WritesThenTells, IncidentTyped
<1>4. IncidentFollowed'
  BY DEF IncidentFollowed, IncidentTyped
<1> QED
  BY <1>2, <1>3, <1>4

\* A call adds its action.
LEMMA TellIncident == ASSUME IncidentInv, NEW q \in IncidentCalls, Inc!AddAction(q) PROVE IncidentInv'
<1> USE DEF IncidentInv, Inc!AddAction
<1>1. /\ trail' \in Seq(IncidentCalls) /\ Members(trail)' = Members(trail) \cup {q}
      /\ DOMAIN trail = 1..Len(trail) /\ DOMAIN trail' = 1..(Len(trail) + 1) /\ Len(trail) \in Nat
      /\ trail'[Len(trail) + 1] = q /\ \A i \in 1..Len(trail) : trail'[i] = trail[i]
  BY MembersAppend DEF IncidentTyped
<1>2. Writers' = Writers /\ q \in Writers /\ q \notin Members(trail)
  BY DEF Writers, WritesThenTells
<1>3. IncidentTyped' /\ Knows'
  BY <1>1 DEF IncidentTyped, Knows, InHand
<1>4. WritesThenTells'
  BY <1>1, <1>2 DEF WritesThenTells, IncidentTyped
<1>5. TrailIsTrue'
  <2>1. \A i \in 1..Len(trail) : trail[i] # q
    BY <1>1, <1>2 DEF Members
  <2>2. \A i, j \in DOMAIN trail' : trail'[i] = trail'[j] => i = j
    BY <1>1, <2>1 DEF TrailIsTrue
  <2> QED
    BY <1>1, <1>2, <2>2 DEF TrailIsTrue
<1>6. IncidentFollowed'
  BY DEF IncidentFollowed, IncidentTyped
<1> QED
  BY <1>3, <1>4, <1>5, <1>6

\* Every step, and stuttering, preserves the invariant.
LEMMA NextIncident == IncidentInv /\ [Inc!Next]_(Inc!vars) => IncidentInv'
<1> SUFFICES ASSUME IncidentInv, [Inc!Next]_(Inc!vars) PROVE IncidentInv'
  OBVIOUS
<1>1. CASE UNCHANGED Inc!vars
  <2>1. UNCHANGED <<incident, trail, stage, asked, created, seen, wrote>>
    BY <1>1 DEF Inc!vars
  <2>2. Members(trail)' = Members(trail) /\ Writers' = Writers
    BY <2>1 DEF Members, Writers
  <2>3. IncidentTyped' /\ Knows' /\ TrailIsTrue' /\ WritesThenTells' /\ IncidentFollowed'
    BY <2>1, <2>2 DEF IncidentInv, IncidentTyped, Knows, InHand, TrailIsTrue, WritesThenTells, IncidentFollowed
  <2> QED
    BY <2>3 DEF IncidentInv
<1>2. ASSUME NEW q \in IncidentCalls,
             Inc!Get(q) \/ Inc!Update(q) \/ Inc!UpdateError(q) \/ Inc!AddAction(q) \/ Inc!AddActionError(q)
      PROVE  IncidentInv'
  <2>1. CASE Inc!Get(q)
    BY <2>1, GetIncident
  <2>2. CASE Inc!Update(q)
    BY <2>2, WriteIncident DEF Inc!Update
  <2>3. CASE Inc!UpdateError(q) /\ Inc!Write(q)
    BY <2>3, WriteIncident DEF Inc!UpdateError
  <2>4. CASE (Inc!UpdateError(q) /\ ~Inc!Write(q)) \/ Inc!AddActionError(q)
    BY <2>4, GiveUpIncident DEF Inc!UpdateError, Inc!AddActionError
  <2>5. CASE Inc!AddAction(q)
    BY <2>5, TellIncident
  <2> QED
    BY <1>2, <2>1, <2>2, <2>3, <2>4, <2>5
<1> QED
  BY <1>1, <1>2 DEF Inc!Next

\* Whatever calls overlap and whichever statements fail, an action in the trail
\* did change the incident, and is in it once.
THEOREM TrailTellsTruth == Inc!Spec => []TrailIsTrue
<1>1. IncidentInv => TrailIsTrue
  BY DEF IncidentInv
<1> QED
  BY <1>1, InitIncident, NextIncident, PTL DEF Inc!Spec

\* A change of an incident is overwritten only where two changes gave it one
\* version, whatever the version it was created with.
THEOREM LossesAreSeen == Inc!Spec => []LossShows
<1>1. IncidentInv => LossShows
  BY DEF IncidentInv, IncidentFollowed, Counted, LossShows
<1> QED
  BY <1>1, InitIncident, NextIncident, PTL DEF Inc!Spec
=============================================================================
