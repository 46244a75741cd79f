----------------------------- MODULE PageProofs -----------------------------
(***************************************************************************)
(* Proofs about ToggleControls, FormControls and RowLists: what a camera   *)
(* page shows once everything has ended is what the other side has, for    *)
(* any number of clicks, edits, items and handlers; and about the run of   *)
(* the five modules of the page together.                                  *)
(***************************************************************************)
EXTENDS MCPage, PlayerProofs, SequenceTheorems, TLAPS

-----------------------------------------------------------------------------
(* Sequences                                                               *)

\* What is left of a sequence when one element is taken out.
LEMMA Removed ==
  ASSUME NEW S, NEW s \in Seq(S), NEW i \in DOMAIN s
  PROVE  /\ RemoveAt(s, i) \in Seq(S)
         /\ Len(RemoveAt(s, i)) = Len(s) - 1
         /\ \A j \in 1 .. Len(s) - 1 : RemoveAt(s, i)[j] = IF j < i THEN s[j] ELSE s[j + 1]
<1> DEFINE a == SubSeq(s, 1, i - 1)
           b == SubSeq(s, i + 1, Len(s))
<1>1. i \in 1 .. Len(s) /\ Len(s) \in Nat
  OBVIOUS
<1>2. a \in Seq(S) /\ Len(a) = i - 1 /\ \A j \in 1 .. i - 1 : a[j] = s[j]
  BY <1>1, SubSeqProperties
<1>3. b \in Seq(S) /\ Len(b) = Len(s) - i /\ \A j \in 1 .. Len(s) - i : b[j] = s[i + j]
  BY <1>1, SubSeqProperties
<1>4. RemoveAt(s, i) = a \o b
  BY DEF RemoveAt
<1> HIDE DEF a, b
<1>5. /\ a \o b \in Seq(S) /\ Len(a \o b) = Len(s) - 1
      /\ \A j \in 1 .. Len(s) - 1 : (a \o b)[j] = IF j <= i - 1 THEN a[j] ELSE b[j - (i - 1)]
  BY <1>1, <1>2, <1>3, ConcatProperties
<1>6. ASSUME NEW j \in 1 .. Len(s) - 1
      PROVE  (a \o b)[j] = IF j < i THEN s[j] ELSE s[j + 1]
  <2>1. CASE j < i
    BY <1>1, <1>2, <1>5, <2>1
  <2>2. CASE ~(j < i)
    <3>1. PICK k \in Int : k = j - (i - 1)
      BY <1>1
    <3>2. k \in 1 .. Len(s) - i /\ i + k = j + 1
      BY <1>1, <2>2, <3>1
    <3>3. b[k] = s[j + 1]
      BY <1>3, <3>2
    <3> QED
      BY <1>1, <1>5, <2>2, <3>1, <3>3
  <2> QED
    BY <2>1, <2>2
<1> QED
  BY <1>4, <1>5, <1>6


\* The length and the domain of a sequence; the empty one is the one of length 0.
LEMMA Lengths ==
  ASSUME NEW S, NEW s \in Seq(S)
  PROVE  Len(s) \in Nat /\ DOMAIN s = 1 .. Len(s) /\ (s = <<>> <=> Len(s) = 0)
BY LenProperties, EmptySeq

-----------------------------------------------------------------------------
(* The switches                                                            *)

\* What is queued and what is under way.
Handlers == [value : States, by : {"user", "page"}]
Requests == [value : States, by : {"user", "page"}, at : {"sent", "ok", "refused", "raised"}]

\* Which switches are guarded, and by what.
LEMMA SwitchFacts ==
  ASSUME switch \in DOMAIN Switches
  PROVE  /\ switch \in {"privacy", "light", "recording", "nvr", "share", "card"}
         /\ Guarded \in BOOLEAN
         /\ Guarded <=> switch \in {"recording", "nvr", "share"}
         /\ switch = "share" => ~Switches[switch].loads
<1>1. switch \in {"privacy", "light", "recording", "nvr", "share", "card"}
  BY DEF Switches
<1>2. /\ Switches["privacy"].guarded = FALSE /\ Switches["light"].guarded = FALSE
      /\ Switches["recording"].guarded = TRUE /\ Switches["nvr"].guarded = TRUE
      /\ Switches["share"].guarded = TRUE     /\ Switches["card"].guarded = FALSE
  BY DEF Switches, PrivacySwitch, LightSwitch, RecordingSwitch, NvrSwitch, ShareSwitch, CardSwitch
<1>3. Switches["share"].loads = FALSE
  BY DEF Switches, ShareSwitch
<1> QED
  BY <1>1, <1>2, <1>3, Zenon DEF Guarded

\* What an assignment to a switch queues.
LEMMA Assigned ==
  ASSUME shown \in States, NEW queue \in Seq(Handlers), NEW v \in States,
         NEW who \in {"user", "page"}, Assign(queue, v, who)
  PROVE  shown' \in States /\ ready' \in Seq(Handlers)
<1>1. [value |-> v, by |-> who] \in Handlers
  BY DEF Handlers
<1>2. Append(queue, [value |-> v, by |-> who]) \in Seq(Handlers)
  BY <1>1, AppendProperties
<1> QED
  BY <1>2 DEF Assign

\* Every step of a switch keeps the types.
LEMMA ToggleTyping == ToggleTypeOK /\ [ToggleNext]_toggleVars => ToggleTypeOK'
<1> SUFFICES ASSUME ToggleTypeOK, [ToggleNext]_toggleVars
             PROVE  ToggleTypeOK'
  OBVIOUS
<1>0. /\ ready \in Seq(Handlers) /\ writes \in Seq(Requests)
      /\ shown \in States /\ server \in States
      /\ ToggleTypeOK' <=>
           /\ ready' \in Seq(Handlers) /\ writes' \in Seq(Requests)
           /\ switch' \in DOMAIN Switches /\ user' \in {"patient", "hasty"}
           /\ server' \in States /\ shown' \in States
           /\ guard' \in BOOLEAN /\ unsure' \in BOOLEAN /\ swallowed' \in BOOLEAN
           /\ loading' \in {"waiting", "asked", "answered", "done", "failed"}
           /\ answer' \in States \cup {"none"} /\ label' \in States \cup {"none"}
           /\ online' \in {"unknown", "online", "offline"}
           /\ clicks' \in 0..MaxClicks
  BY DEF ToggleTypeOK, Handlers, Requests
<1>opp. \A v \in States : Opposite(v) \in States
  BY DEF Opposite, States
<1>guarded. Guarded \in BOOLEAN
  BY SwitchFacts DEF ToggleTypeOK
<1>head. ready # <<>> => Head(ready) \in Handlers /\ Tail(ready) \in Seq(Handlers)
  BY <1>0, HeadTailProperties
<1>1. CASE Click
  <2>1. shown' \in States /\ ready' \in Seq(Handlers)
    BY <1>0, <1>1, <1>opp, Assigned DEF Click
  <2> QED
    BY <1>0, <1>1, <2>1, ToggleAssumption DEF Click, ToggleTypeOK
<1>2. CASE Ping \/ AskState \/ StateRead \/ StateUnavailable
  BY <1>0, <1>2 DEF Ping, AskState, StateRead, StateUnavailable, ToggleTypeOK
<1>3. CASE ShowState
  <2>1. answer \in States
    BY <1>3 DEF ShowState, ToggleTypeOK
  <2>2. shown' \in States /\ ready' \in Seq(Handlers)
    BY <1>0, <1>3, <2>1, Assigned DEF ShowState
  <2> QED
    BY <1>0, <1>3, <1>guarded, <2>1, <2>2 DEF ShowState, ToggleTypeOK
<1>4. CASE Suppress
  BY <1>0, <1>4, <1>head DEF Suppress, ToggleTypeOK
<1>5. CASE RevertOffline
  <2>1. Opposite(Head(ready).value) \in States
    BY <1>5, <1>head, <1>opp DEF RevertOffline, Handlers
  <2>2. shown' \in States /\ ready' \in Seq(Handlers)
    BY <1>0, <1>5, <1>head, <2>1, Assigned DEF RevertOffline
  <2> QED
    BY <1>0, <1>5, <2>2 DEF RevertOffline, ToggleTypeOK
<1>6. CASE Write
  <2>1. [value |-> Head(ready).value, by |-> Head(ready).by, at |-> "sent"] \in Requests
    BY <1>6, <1>head DEF Write, Handlers, Requests
  <2>2. writes' \in Seq(Requests)
    BY <1>0, <1>6, <2>1, AppendProperties DEF Write
  <2> QED
    BY <1>0, <1>6, <1>head, <2>2 DEF Write, ToggleTypeOK
<1>7. ASSUME NEW i \in DOMAIN writes, Serve(i)
      PROVE  ToggleTypeOK'
  <2>1. i \in 1 .. Len(writes) /\ writes[i] \in Requests
    BY <1>0, Lengths, ElementOfSeq
  <2>2. PICK result \in {"ok", "refused", "raised"} :
           /\ writes' = [writes EXCEPT ![i] = [writes[i] EXCEPT !.at = result]]
           /\ server' \in {server, writes[i].value}
    BY <1>7 DEF Serve
  <2>3. [writes[i] EXCEPT !.at = result] \in Requests
    BY <2>1 DEF Requests
  <2>4. writes' \in Seq(Requests)
    BY <1>0, <2>1, <2>2, <2>3, ExceptSeq
  <2> QED
    BY <1>0, <1>7, <2>1, <2>2, <2>4 DEF Serve, ToggleTypeOK, Requests
<1>8. ASSUME NEW i \in DOMAIN writes, Finish(i)
      PROVE  ToggleTypeOK'
  <2>0. writes[i] \in Requests
    BY <1>0, Lengths, ElementOfSeq
  <2>1. writes[i].value \in States
    BY <2>0 DEF Requests
  <2>2. writes' \in Seq(Requests)
    BY <1>0, <1>8, Removed DEF Finish, Taken, Refused, Raised
  <2>3. CASE Taken(i)
    BY <1>0, <2>1, <2>2, <2>3 DEF Taken, ToggleTypeOK
  <2>4. CASE Refused(i)
    <3>1. shown' \in States /\ ready' \in Seq(Handlers)
      BY <1>0, <1>opp, <2>1, <2>4, Assigned DEF Refused
    <3> QED
      BY <1>0, <1>guarded, <2>2, <2>4, <3>1 DEF Refused, ToggleTypeOK
  <2>5. CASE Raised(i)
    <3>1. shown' \in States /\ ready' \in Seq(Handlers)
      BY <1>0, <1>opp, <2>1, <2>5, Assigned DEF Raised
    <3> QED
      BY <1>0, <2>2, <2>5, <3>1 DEF Raised, ToggleTypeOK
  <2> QED
    BY <1>8, <2>3, <2>4, <2>5 DEF Finish
<1>9. CASE UNCHANGED toggleVars
  BY <1>0, <1>9 DEF toggleVars, ToggleTypeOK
<1> QED
  BY <1>1, <1>2, <1>3, <1>4, <1>5, <1>6, <1>7, <1>8, <1>9 DEF ToggleNext, Load, Handle

\* With a user who waits, one handler is queued or one request is under way, never both; its value
\* is what the switch shows, and the flag is down while a request is out.  Nothing happens before
\* the load is through.  A handler that the page queued for a guarded switch of the cloud finds
\* the flag up, so its requests are the user's; the recorder is only ever refused a start.
ToggleOrder ==
    /\ Len(ready) \in {0, 1} /\ Len(writes) \in {0, 1}
    /\ Len(ready) = 0 \/ Len(writes) = 0
    /\ Len(ready) = 1 => ready[1].value = shown
    /\ Len(writes) = 1 => writes[1].value = shown /\ ~guard
    /\ guard => Guarded
    /\ loading \notin {"done", "failed"} =>
          Len(ready) = 0 /\ Len(writes) = 0 /\ ~guard /\ label = "none"
    /\ loading \in {"waiting", "asked"} => answer = "none"
    /\ loading = "answered" => answer \in {server, "none"}
    /\ switch = "share" => loading = "done"
    /\ switch \in {"share", "card"} => label = "none"
    /\ switch \in {"recording", "share"} =>
          /\ Len(ready) = 1 /\ ready[1].by = "page" => guard
          /\ Len(writes) = 1 => writes[1].by = "user"
    /\ switch = "nvr" /\ Len(writes) = 1 /\ writes[1].at = "refused" => shown = On

\* The load has ended well and nothing has happened that SettledIsTruthful sets aside.
Trusted == loading = "done" /\ ~unsure /\ ~swallowed

\* Then a click finds the switch true and makes it the opposite of the other side, a request that
\* was taken makes it true again, and so does the revert of a refused one, whose handler either
\* finds the flag up or writes again what it shows.
ToggleTruth == Trusted =>
    /\ Len(ready) = 0 /\ Len(writes) = 0 => shown = server
    /\ Len(ready) = 1 /\ ready[1].by = "page" /\ guard => shown = server
    /\ Len(ready) = 1 /\ ready[1].by = "user" => server = Opposite(shown)
    /\ Len(writes) = 1 /\ writes[1].at = "ok" => server = shown
    /\ Len(writes) = 1 /\ writes[1].at \in {"sent", "refused"}
          /\ switch \in {"recording", "share"} => server = Opposite(shown)
    /\ label \in {server, "none"} \/ (Len(writes) = 1 /\ writes[1].at \in {"ok", "raised"})

\* The inductive invariant.
ToggleInv == ToggleTypeOK /\ (user = "patient" => ToggleOrder /\ ToggleTruth)

\* A page that has just opened satisfies the invariant.
LEMMA ToggleInitInv == ToggleInit => ToggleInv
<1> SUFFICES ASSUME ToggleInit PROVE ToggleInv
  OBVIOUS
<1>1. ready = <<>> /\ writes = <<>> /\ Len(ready) = 0 /\ Len(writes) = 0
  BY DEF ToggleInit
<1>2. /\ ready \in Seq(Handlers) /\ writes \in Seq(Requests)
  BY <1>1
<1>3. ToggleTypeOK
  <2>1. /\ switch \in DOMAIN Switches /\ user \in {"patient", "hasty"}
        /\ server \in States /\ shown \in States
        /\ loading \in {"waiting", "asked", "answered", "done", "failed"}
    BY DEF ToggleInit, States
  <2>2. /\ guard \in BOOLEAN /\ unsure \in BOOLEAN /\ swallowed \in BOOLEAN
        /\ answer \in States \cup {"none"} /\ label \in States \cup {"none"}
        /\ online \in {"unknown", "online", "offline"} /\ clicks \in 0..MaxClicks
    <3>1. 0 \in 0 .. MaxClicks
      BY ToggleAssumption
    <3> QED
      BY <3>1 DEF ToggleInit
  <2> QED
    BY <1>2, <2>1, <2>2 DEF ToggleTypeOK, Handlers, Requests
<1>4. ToggleOrder
  <2>1. switch = "share" => loading = "done"
    BY SwitchFacts DEF ToggleInit
  <2> QED
    BY <1>1, <2>1 DEF ToggleInit, ToggleOrder
<1>5. ToggleTruth
  BY <1>1 DEF ToggleInit, ToggleTruth, Trusted
<1> QED
  BY <1>3, <1>4, <1>5 DEF ToggleInv

\* An assignment to an empty queue.
LEMMA AssignedFirst ==
  ASSUME NEW queue \in Seq(Handlers), Len(queue) = 0, NEW v \in States,
         NEW who \in {"user", "page"}, Assign(queue, v, who)
  PROVE  /\ shown' = v
         /\ v = shown => Len(ready') = 0
         /\ v # shown => Len(ready') = 1 /\ ready'[1].value = v /\ ready'[1].by = who
<1>1. [value |-> v, by |-> who] \in Handlers
  BY DEF Handlers
<1>2. /\ Len(Append(queue, [value |-> v, by |-> who])) = 1
      /\ Append(queue, [value |-> v, by |-> who])[1] = [value |-> v, by |-> who]
  BY <1>1, AppendProperties
<1> QED
  BY <1>2 DEF Assign

\* Every step of a switch of a user who waits keeps the order and the truth.
LEMMA ToggleStep ==
  ASSUME ToggleTypeOK, user = "patient", ToggleOrder, ToggleTruth, [ToggleNext]_toggleVars
  PROVE  ToggleOrder' /\ ToggleTruth'
<1>0. /\ ready \in Seq(Handlers) /\ writes \in Seq(Requests) /\ switch \in DOMAIN Switches
      /\ shown \in States /\ server \in States
  BY DEF ToggleTypeOK, Handlers, Requests
<1>len. /\ Len(ready) \in Nat /\ (ready = <<>> <=> Len(ready) = 0)
        /\ Len(writes) \in Nat /\ (writes = <<>> <=> Len(writes) = 0)
        /\ DOMAIN writes = 1 .. Len(writes)
  BY <1>0, Lengths
<1>opp. \A v \in States : Opposite(v) \in States /\ Opposite(v) # v /\ Opposite(Opposite(v)) = v
  BY DEF Opposite, States, On, Off
<1>guarded. Guarded \in BOOLEAN /\ (Guarded <=> switch \in {"recording", "nvr", "share"})
  BY <1>0, SwitchFacts
<1>same. switch' = switch => Guarded' = Guarded
  BY DEF Guarded
<1>one. /\ Len(ready) \in {0, 1} /\ Len(writes) \in {0, 1}
        /\ Len(ready) = 0 \/ Len(writes) = 0
  BY DEF ToggleOrder
<1>1. CASE Click
  <2>1. Len(ready) = 0 /\ Len(writes) = 0 /\ loading \in {"done", "failed"}
    BY <1>1, <1>len DEF Click, Settled
  <2>2. /\ shown' = Opposite(shown) /\ Len(ready') = 1
        /\ ready'[1].value = Opposite(shown) /\ ready'[1].by = "user"
    BY <1>0, <1>1, <1>opp, <2>1, AssignedFirst DEF Click
  <2> QED
    BY <1>1, <1>0, <1>opp, <1>same, <2>1, <2>2 DEF Click, ToggleOrder, ToggleTruth, Trusted
<1>2. CASE Ping \/ AskState \/ StateRead \/ StateUnavailable
  BY <1>2, <1>same DEF Ping, AskState, StateRead, StateUnavailable, ToggleOrder, ToggleTruth, Trusted
<1>3. CASE ShowState
  <2>1. /\ answer \in States /\ answer = server
        /\ Len(ready) = 0 /\ Len(writes) = 0
    BY <1>3 DEF ShowState, ToggleTypeOK, ToggleOrder
  <2>2. /\ shown' = answer
        /\ answer = shown => Len(ready') = 0
        /\ answer # shown => Len(ready') = 1 /\ ready'[1].value = answer /\ ready'[1].by = "page"
    BY <1>0, <1>3, <2>1, AssignedFirst DEF ShowState
  <2>3. /\ writes' = writes /\ switch' = switch /\ server' = server /\ answer' = answer
        /\ guard' = Guarded /\ loading' = "done" /\ label' \in {label, answer}
        /\ switch = "card" => label' = label
        /\ loading = "answered" /\ label = "none"
    BY <1>3 DEF ShowState, ToggleOrder
  <2>4. switch # "share" /\ (switch = "card" => label' = "none")
    BY <2>3 DEF ToggleOrder
  <2>5. ToggleOrder'
    <3>1. Len(writes') = 0 /\ ~(Len(writes') = 1)
      BY <2>1, <2>3
    <3>2. (guard' => Guarded') /\ (switch' \in {"recording", "share"} => guard')
      BY <1>guarded, <1>same, <2>3
    <3>3. Len(ready') \in {0, 1} /\ (Len(ready') = 1 => ready'[1].value = shown')
      BY <2>2
    <3> QED
      BY <2>3, <2>4, <3>1, <3>2, <3>3 DEF ToggleOrder
  <2>6. ToggleTruth'
    BY <2>1, <2>2, <2>3 DEF ToggleTruth
  <2> QED
    BY <2>5, <2>6
<1>4. CASE Handle
  <2>1. Len(ready) = 1 /\ Len(writes) = 0 /\ loading \in {"done", "failed"}
    <3>1. ready # <<>>
      <4>1. CASE Suppress
        BY <4>1 DEF Suppress
      <4>2. CASE RevertOffline
        BY <4>2 DEF RevertOffline
      <4>3. CASE Write
        BY <4>3 DEF Write
      <4> QED
        BY <1>4, <4>1, <4>2, <4>3 DEF Handle
    <3>2. Len(ready) = 1 /\ Len(writes) = 0
      BY <1>len, <1>one, <3>1
    <3> QED
      BY <3>2 DEF ToggleOrder
  <2>2. Head(ready) = ready[1] /\ Head(ready) \in Handlers /\ Tail(ready) \in Seq(Handlers)
        /\ Len(Tail(ready)) = 0
    BY <1>0, <1>len, <2>1, HeadTailProperties
  <2>3. CASE Suppress
    <3>1. ready[1].by \in {"user", "page"}
      BY <2>2 DEF Handlers
    <3>2. /\ Len(ready') = 0 /\ guard = TRUE /\ guard' = FALSE
          /\ UNCHANGED <<switch, server, shown, loading, answer, writes, label, unsure>>
      BY <2>2, <2>3 DEF Suppress
    <3>3. ~swallowed' => ~swallowed /\ ready[1].by # "user"
      BY <2>2, <2>3, Zenon DEF Suppress
    <3>4. ToggleOrder'
      BY <1>same, <2>1, <3>2 DEF ToggleOrder
    <3>5. ToggleTruth'
      BY <2>1, <3>1, <3>2, <3>3 DEF ToggleTruth, Trusted
    <3> QED
      BY <3>4, <3>5
  <2>4. CASE RevertOffline
    <3>1. Head(ready).value = shown
      BY <2>1, <2>2 DEF ToggleOrder
    <3>2. /\ shown' = Opposite(shown) /\ Len(ready') = 1
          /\ ready'[1].value = Opposite(shown) /\ ready'[1].by = "page"
      BY <1>0, <1>opp, <2>2, <2>4, <3>1, AssignedFirst DEF RevertOffline
    <3>3. ~guard
      BY <1>guarded, <2>4 DEF RevertOffline, ToggleOrder
    <3> QED
      BY <1>same, <2>1, <2>4, <3>2, <3>3 DEF RevertOffline, ToggleOrder, ToggleTruth, Trusted
  <2>5. CASE Write
    <3> DEFINE sent == [value |-> Head(ready).value, by |-> Head(ready).by, at |-> "sent"]
    <3>1. sent \in Requests
      BY <2>2 DEF Handlers, Requests
    <3>2. Len(writes') = 1 /\ writes'[1] = sent
      BY <1>0, <2>1, <2>5, <3>1, AppendProperties DEF Write
    <3>3. writes'[1].value = shown /\ writes'[1].by = ready[1].by /\ writes'[1].at = "sent"
      BY <2>1, <2>2, <3>2 DEF ToggleOrder
    <3>4. Len(ready') = 0
      BY <2>2, <2>5 DEF Write
    <3>5. ready[1].by \in {"user", "page"}
      BY <2>2 DEF Handlers
    <3>6. ToggleOrder'
      BY <1>same, <2>1, <2>5, <3>2, <3>3, <3>4, <3>5 DEF Write, ToggleOrder
    <3>7. switch \in {"recording", "share"} => ready[1].by = "user"
      BY <2>1, <2>5, <3>5 DEF Write, ToggleOrder
    <3>8. ToggleTruth'
      BY <2>1, <2>5, <3>2, <3>3, <3>4, <3>7 DEF Write, ToggleTruth, Trusted
    <3> QED
      BY <3>6, <3>8
  <2> QED
    BY <1>4, <2>3, <2>4, <2>5 DEF Handle
<1>5. ASSUME NEW i \in DOMAIN writes, Serve(i) \/ Finish(i)
      PROVE  ToggleOrder' /\ ToggleTruth'
  <2>1. i = 1 /\ Len(writes) = 1 /\ Len(ready) = 0 /\ loading \in {"done", "failed"}
    BY <1>5, <1>len, <1>one DEF ToggleOrder
  <2>2. writes[1] \in Requests /\ writes[1].value = shown /\ ~guard
    BY <1>0, <1>len, <2>1, ElementOfSeq DEF ToggleOrder
  <2>3. CASE Serve(i)
    <3>1. PICK result \in {"ok", "refused", "raised"} :
             /\ switch = "nvr" => result = "ok" \/ (result = "refused" /\ writes[i].value = On)
             /\ writes' = [writes EXCEPT ![i] = [writes[i] EXCEPT !.at = result]]
             /\ \/ result \in {"ok", "raised"} /\ server' = writes[i].value
                \/ result \in {"refused", "raised"} /\ server' = server
      BY <2>3 DEF Serve
    <3>2. [writes[i] EXCEPT !.at = result] \in Requests
      BY <2>1, <2>2 DEF Requests
    <3>3. /\ Len(writes') = 1
          /\ writes'[1].value = shown /\ writes'[1].by = writes[1].by /\ writes'[1].at = result
      BY <1>0, <2>1, <2>2, <3>1, <3>2, ExceptSeq DEF Requests
    <3> QED
      BY <1>same, <2>1, <2>2, <2>3, <3>1, <3>3 DEF Serve, ToggleOrder, ToggleTruth, Trusted
  <2>4. ASSUME Finish(i)
        PROVE  Len(writes') = 0
    BY <1>0, <2>1, <2>4, Removed DEF Finish, Taken, Refused, Raised
  <2>5. CASE Taken(i)
    BY <1>same, <2>1, <2>2, <2>4, <2>5 DEF Finish, Taken, ToggleOrder, ToggleTruth, Trusted
  <2>6. CASE Refused(i)
    <3>1. /\ shown' = Opposite(shown) /\ Len(ready') = 1
          /\ ready'[1].value = Opposite(shown) /\ ready'[1].by = "page"
      BY <1>0, <1>opp, <2>1, <2>2, <2>6, AssignedFirst DEF Refused
    <3>2. ToggleOrder'
      BY <1>same, <1>guarded, <2>1, <2>2, <2>4, <2>6, <3>1 DEF Finish, Refused, ToggleOrder
    <3>3. guard' => switch \in {"recording", "share"}
      BY <1>guarded, <2>2, <2>6 DEF Refused
    <3>4. writes[1].at = "refused"
      BY <2>1, <2>6 DEF Refused
    <3>5. server \in States /\ shown \in States
      BY <1>0
    <3>6. ToggleTruth'
      BY <1>opp, <2>1, <2>4, <2>6, <3>1, <3>3, <3>4, <3>5
         DEF Finish, Refused, ToggleTruth, Trusted
    <3> QED
      BY <3>2, <3>6
  <2>7. CASE Raised(i)
    <3>1. switch = "card" => Opposite(shown) = shown' /\ Len(ready') = 1
                             /\ ready'[1].value = Opposite(shown) /\ ready'[1].by = "page"
      BY <1>0, <1>opp, <2>1, <2>2, <2>7, AssignedFirst DEF Raised
    <3>2. switch # "card" => shown' = shown /\ Len(ready') = 0
      BY <2>1, <2>7 DEF Raised
    <3>3. ToggleOrder'
      <4>1. Len(ready') \in {0, 1} /\ (Len(ready') = 1 => switch = "card" /\ ready'[1].value = shown')
        BY <3>1, <3>2
      <4>2. UNCHANGED <<switch, guard, loading, label, answer, server>>
        BY <2>7 DEF Raised
      <4> QED
        BY <1>same, <2>1, <2>2, <2>4, <2>7, <4>1, <4>2 DEF Finish, ToggleOrder
    <3>4. ToggleTruth'
      BY <2>7 DEF Raised, ToggleTruth, Trusted
    <3> QED
      BY <3>3, <3>4
  <2> QED
    BY <1>5, <2>3, <2>5, <2>6, <2>7 DEF Finish
<1>6. CASE UNCHANGED toggleVars
  BY <1>6, <1>same DEF toggleVars, ToggleOrder, ToggleTruth, Trusted
<1> QED
  BY <1>1, <1>2, <1>3, <1>4, <1>5, <1>6 DEF ToggleNext, Load

\* Which switch it is and what the user is like never change.
LEMMA ToggleFixed == [ToggleNext]_toggleVars => UNCHANGED <<switch, user>>
BY DEF ToggleNext, Click, Load, Handle, Ping, AskState, StateRead, ShowState, StateUnavailable,
   Suppress, RevertOffline, Write, Serve, Finish, Taken, Refused, Raised, toggleVars

\* Every step keeps the invariant.
LEMMA ToggleInvStep == ToggleInv /\ [ToggleNext]_toggleVars => ToggleInv'
BY ToggleTyping, ToggleStep, ToggleFixed DEF ToggleInv

\* The inductive invariant of a switch, and the types of its variables.
THEOREM ToggleInvariance == ToggleSpec => []ToggleInv
BY ToggleInitInv, ToggleInvStep, PTL DEF ToggleSpec

\* Once everything has ended, a switch shows the state it stands for and its label claims no other
\* one: for every switch, after any number of clicks of a user who waits, whatever was refused.
THEOREM Truthful == ToggleSpec => []SettledIsTruthful
<1>1. ToggleInv => SettledIsTruthful
  BY DEF ToggleInv, ToggleTruth, Trusted, SettledIsTruthful, Settled
<1> QED
  BY <1>1, ToggleInvariance, PTL

\* A guarded switch of the cloud sends what the user clicked and nothing else: neither the load
\* nor the revert of a failed write comes back as a request.
THEOREM OnlyClicks == ToggleSpec => OnlyClicksAreWritten
<1>1. ASSUME ToggleInv, [ToggleNext]_toggleVars, switch \in {"recording", "share"},
             user = "patient", Len(writes') > Len(writes)
      PROVE  Last(writes').by = "user"
  <2>1. ToggleOrder' /\ switch' = switch
    BY <1>1, ToggleInvStep, ToggleFixed DEF ToggleInv
  <2>2. Len(writes') = 1 /\ writes'[1].by = "user"
    BY <1>1, <2>1 DEF ToggleOrder, ToggleInv
  <2> QED
    BY <2>2 DEF Last
<1>2. ToggleInv /\ [ToggleNext]_toggleVars =>
        [(switch \in {"recording", "share"} /\ user = "patient" /\ Len(writes') > Len(writes))
           => Last(writes').by = "user"]_toggleVars
  BY <1>1
<1> QED
  BY <1>2, ToggleInvariance, PTL DEF ToggleSpec, OnlyClicksAreWritten

-----------------------------------------------------------------------------
(* The forms                                                               *)

Tasks == [does : {"load", "apply"}, at : {"sent", "ok", "refused", "raised"},
          carries : Settings \cup {Blank, "none"}]

\* What a write may carry: only the lighting schedule leaves a time out.
Sendings == IF Form.cleared = "omitted" THEN Settings \cup {Blank} ELSE Settings

\* A write carries what its section can send, a read that was answered what the camera may have.
Carrying == {t \in Tasks : /\ t.does = "apply" => t.carries \in Sendings
                           /\ t.does = "load" /\ t.at = "ok" => t.carries \in Stored}

\* What the labels of the forms claim; where a time can be left out the label names none.
LEMMA FormFacts ==
  ASSUME form \in DOMAIN Forms
  PROVE  /\ Form.claims \in {"sent", "widgets", "none"}
         /\ form = "pan" => Form.claims = "sent"
         /\ Form.cleared \in {"never", "default", "omitted"} /\ Form.unlisted \in BOOLEAN
         /\ Form.cleared = "omitted" => Form.claims = "none" /\ ~Form.unlisted
<1>1. form \in {"pan", "motion", "intrusion", "sound", "lighting", "siren"}
  BY DEF Forms
<1>2. /\ Forms["pan"] = PanForm             /\ Forms["motion"] = MotionForm
      /\ Forms["intrusion"] = IntrusionForm /\ Forms["sound"] = SoundForm
      /\ Forms["lighting"] = LightingForm   /\ Forms["siren"] = SirenForm
  BY DEF Forms
<1>3. Form \in {PanForm, MotionForm, IntrusionForm, SoundForm, LightingForm, SirenForm}
      /\ (form = "pan" => Form = PanForm)
  BY <1>1, <1>2 DEF Form
<1> DEFINE Fits(f) == /\ f.claims \in {"sent", "widgets", "none"}
                      /\ f.cleared \in {"never", "default", "omitted"} /\ f.unlisted \in BOOLEAN
                      /\ f.cleared = "omitted" => f.claims = "none" /\ ~f.unlisted
<1>4. PanForm.claims = "sent" /\ Fits(PanForm)
  BY DEF PanForm
<1>5. Fits(MotionForm) /\ Fits(IntrusionForm)
  BY DEF MotionForm, IntrusionForm
<1>6. Fits(SoundForm) /\ Fits(LightingForm)
  BY DEF SoundForm, LightingForm
<1>7. Fits(SirenForm)
  BY DEF SirenForm
<1> HIDE DEF Fits
<1>8. Fits(Form)
  BY <1>3, <1>4, <1>5, <1>6, <1>7
<1> QED
  BY <1>3, <1>4, <1>8 DEF Fits

\* What is sent for what the widgets hold is what a request of the section may carry, and what
\* the camera makes of it is what it may have.
LEMMA SentTypes ==
  ASSUME form \in DOMAIN Forms
  PROVE  /\ \A v \in Inputs : Sent(v) \in Sendings
         /\ \A v \in Sendings : held \in Stored => Written(v) \subseteq Stored
         /\ \A v \in Stored : field \in Inputs => Shown(v) \subseteq Inputs
         /\ Inputs \subseteq Settings \cup {Blank} /\ Stored \subseteq Settings \cup {Blank}
         /\ Settings \subseteq Inputs /\ Settings \subseteq Stored
         /\ Sendings \subseteq Settings \cup {Blank}
  BY FormFacts, FormAssumption DEF Inputs, Sent, Shown, Sendings, Written, Stored

\* Every step of a form keeps the types; its requests carry settings.
LEMMA FormTyping ==
  FormTypeOK /\ tasks \in Seq(Carrying) /\ [FormNext]_formVars
    => FormTypeOK' /\ tasks' \in Seq(Carrying) /\ Carrying' = Carrying
<1> SUFFICES ASSUME FormTypeOK, tasks \in Seq(Carrying), [FormNext]_formVars
             PROVE  FormTypeOK' /\ tasks' \in Seq(Carrying) /\ Carrying' = Carrying
  OBVIOUS
<1> DEFINE Rest == /\ form' \in DOMAIN Forms /\ manner' \in {"patient", "editing", "hasty"}
                   /\ held' \in Stored /\ field' \in Inputs
                   /\ claim' \in Settings \cup {Blank, "none"}
                   /\ acts' \in 0..MaxActs /\ edited' \in BOOLEAN /\ lost' \in BOOLEAN
<1>0. /\ form \in DOMAIN Forms /\ manner \in {"patient", "editing", "hasty"}
      /\ held \in Stored /\ field \in Inputs /\ claim \in Settings \cup {Blank, "none"}
      /\ acts \in 0..MaxActs /\ edited \in BOOLEAN /\ lost \in BOOLEAN
  BY DEF FormTypeOK
<1>form. form' = form
  BY DEF FormNext, Edit, Apply, Served, Answered, Loaded, NotLoaded, Applied, NotApplied,
     ApplyRaised, formVars
<1>same. Inputs' = Inputs /\ Stored' = Stored /\ Carrying' = Carrying
  BY <1>form DEF Form, Inputs, Stored, Sendings, Carrying
<1>sets. /\ \A v \in Inputs : Sent(v) \in Sendings
         /\ \A v \in Sendings : Written(v) \subseteq Stored
         /\ \A v \in Stored : Shown(v) \subseteq Inputs
         /\ Inputs \subseteq Settings \cup {Blank} /\ Stored \subseteq Settings \cup {Blank}
         /\ Sendings \subseteq Settings \cup {Blank}
  BY <1>0, SentTypes
<1>goal. ASSUME Rest, tasks' \in Seq(Carrying)
         PROVE  FormTypeOK'
  <2>1. Carrying \subseteq Tasks
    BY DEF Carrying
  <2>2. tasks' \in Seq(Tasks)
    BY <1>goal, <2>1, SeqMonotonic
  <2> QED
    BY <1>goal, <1>same, <2>2 DEF FormTypeOK, Tasks
<1>item. \A i \in DOMAIN tasks : i \in 1 .. Len(tasks) /\ tasks[i] \in Carrying
  BY Lengths, ElementOfSeq
<1>load. LoadTask \in Carrying
  BY DEF LoadTask, Carrying, Tasks
<1>apply. \A v \in Sendings : ApplyTask(v) \in Carrying
  BY <1>sets DEF ApplyTask, Carrying, Tasks
<1>removed. \A i \in DOMAIN tasks : RemoveAt(tasks, i) \in Seq(Carrying)
  BY Removed
<1> HIDE DEF Rest
<1>1. CASE Edit
  <2>1. Rest
    BY <1>0, <1>1, FormAssumption DEF Edit, Rest
  <2> QED
    BY <1>1, <1>goal, <1>same, <2>1 DEF Edit
<1>2. CASE Apply
  <2>0. /\ acts < MaxActs /\ acts' = acts + 1 /\ edited' = FALSE
        /\ UNCHANGED <<form, manner, held, field, claim, lost>>
    BY <1>2 DEF Apply
  <2>a. acts' \in 0 .. MaxActs
    BY <1>0, <2>0, FormAssumption
  <2>1. Rest
    BY <1>0, <2>0, <2>a DEF Rest
  <2>2. tasks' \in Seq(Carrying)
    BY <1>0, <1>2, <1>apply, <1>sets, AppendProperties DEF Apply
  <2> QED
    BY <1>goal, <1>same, <2>1, <2>2
<1>3. ASSUME NEW i \in DOMAIN tasks, Served(i)
      PROVE  FormTypeOK' /\ tasks' \in Seq(Carrying)
  <2>1. i \in 1 .. Len(tasks) /\ tasks[i] \in Carrying /\ tasks[i] \in Tasks
    BY <1>item DEF Carrying
  <2>2. PICK t : /\ tasks' = [tasks EXCEPT ![i] = t]
                 /\ \/ /\ tasks[i].does = "load"
                       /\ t \in {[tasks[i] EXCEPT !.at = "ok", !.carries = held],
                                 [tasks[i] EXCEPT !.at = "refused"]}
                    \/ /\ tasks[i].does = "apply"
                       /\ \E result \in {"ok", "refused", "raised"} :
                             t = [tasks[i] EXCEPT !.at = result]
    BY <1>3 DEF Served
  <2>3. t \in Carrying
    BY <1>0, <1>sets, <2>1, <2>2 DEF Carrying, Tasks
  <2>4. tasks' \in Seq(Carrying)
    BY <2>1, <2>2, <2>3, ExceptSeq
  <2>5. held' \in Stored
    <3>1. tasks[i].does = "apply" => Written(tasks[i].carries) \subseteq Stored
      BY <1>sets, <2>1 DEF Carrying
    <3> QED
      BY <1>0, <1>3, <3>1 DEF Served
  <2>6. Rest
    BY <1>0, <1>3, <2>5 DEF Served, Rest
  <2> QED
    BY <1>goal, <2>4, <2>6
<1>4. ASSUME NEW i \in DOMAIN tasks, Answered(i)
      PROVE  FormTypeOK' /\ tasks' \in Seq(Carrying)
  <2>1. i \in 1 .. Len(tasks) /\ tasks[i] \in Carrying
    BY <1>item
  <2>2. tasks' \in Seq(Carrying)
    <3>1. [tasks EXCEPT ![i] = LoadTask] \in Seq(Carrying)
      BY <1>load, <2>1, ExceptSeq
    <3> QED
      BY <1>4, <1>removed, <3>1 DEF Answered, Loaded, NotLoaded, Applied, NotApplied, ApplyRaised
  <2>3. CASE Loaded(i)
    <3>1. tasks[i].carries \in Stored
      BY <2>1, <2>3 DEF Carrying, Loaded
    <3>2. field' \in Inputs
      BY <1>0, <1>sets, <2>3, <3>1 DEF Loaded
    <3>3. claim' \in Settings \cup {Blank, "none"}
      BY <1>sets, <2>3, <3>1 DEF Loaded
    <3> QED
      BY <1>0, <1>goal, <2>2, <2>3, <3>2, <3>3 DEF Loaded, Rest
  <2>4. CASE Applied(i)
    <3>1. tasks[i].carries \in Sendings /\ Sent(field) \in Sendings
      BY <1>0, <1>sets, <2>1, <2>4 DEF Carrying, Applied
    <3>2. claim' \in Settings \cup {Blank, "none"}
      BY <1>sets, <2>4, <3>1 DEF Applied
    <3> QED
      BY <1>0, <1>goal, <2>2, <2>4, <3>2 DEF Applied, Rest
  <2>5. CASE NotLoaded(i) \/ NotApplied(i) \/ ApplyRaised(i)
    <3>1. Rest
      BY <1>0, <2>5 DEF NotLoaded, NotApplied, ApplyRaised, Rest
    <3> QED
      BY <1>goal, <2>2, <3>1
  <2> QED
    BY <1>4, <2>3, <2>4, <2>5 DEF Answered
<1>5. CASE UNCHANGED formVars
  BY <1>5, <1>same DEF formVars, FormTypeOK
<1> QED
  BY <1>same, <1>1, <1>2, <1>3, <1>4, <1>5 DEF FormNext

\* What a form promises is owed to the user who waits, and by the pan section's label also to one
\* who goes on editing.
Waits == manner = "patient" \/ (manner = "editing" /\ form = "pan")

\* One handler is under way at most, and a request that was answered carries what the camera has,
\* but for a time that was left out.  A user who waits leaves the widgets alone until then.
FormOrder == manner # "hasty" =>
    /\ Len(tasks) \in {0, 1}
    /\ Len(tasks) = 1 =>
          /\ tasks[1].does \in {"load", "apply"} /\ (tasks[1].does = "load" => tasks[1].at # "raised")
          /\ tasks[1].at = "ok" /\ (tasks[1].does = "load" \/ tasks[1].carries # Blank)
                => tasks[1].carries = held
          /\ manner = "patient" /\ tasks[1].does = "apply"
                => tasks[1].carries = Sent(field) /\ ~edited

\* The label claims the camera's setting until a request changes it, and the widgets show it
\* unless they were edited or a request is under way.
FormTruth == ~lost =>
    /\ Waits => \/ claim \in {held, "none"}
                \/ Len(tasks) = 1 /\ tasks[1].at \in {"ok", "raised"}
    /\ manner = "patient" /\ Form.reloads /\ ~edited /\ Len(tasks) = 0 /\ Blank \notin {field, held}
          => field = held

\* The inductive invariant.
FormInv == FormTypeOK /\ tasks \in Seq(Carrying) /\ FormOrder /\ FormTruth

\* A section that has just opened satisfies the invariant.
LEMMA FormInitInv == FormInit => FormInv
<1> SUFFICES ASSUME FormInit PROVE FormInv
  OBVIOUS
<1>1. LoadTask \in Carrying
  BY DEF LoadTask, Carrying, Tasks
<1>2. /\ <<LoadTask>> \in Seq(Carrying) /\ <<>> \in Seq(Carrying)
      /\ Carrying \subseteq Tasks
  BY <1>1 DEF Carrying
<1>3. tasks \in Seq(Carrying) /\ tasks \in Seq(Tasks)
  BY <1>2, SeqMonotonic DEF FormInit
<1>types. FormTypeOK
  <2>1. 0 \in 0 .. MaxActs
    BY FormAssumption
  <2>2. field \in Inputs /\ held \in Stored
    BY SentTypes DEF FormInit
  <2> QED
    BY <1>3, <2>1, <2>2 DEF FormInit, FormTypeOK, Tasks
<1>4. tasks = <<>> \/ tasks = <<LoadTask>>
  BY DEF FormInit
<1>5. Len(tasks) \in {0, 1} /\ (Len(tasks) = 1 => tasks[1] = LoadTask)
  BY <1>4
<1>6. FormOrder
  BY <1>5 DEF FormOrder, LoadTask
<1>7. Form.reloads => Len(tasks) = 1
  BY DEF FormInit
<1>8. FormTruth
  BY <1>7 DEF FormInit, FormTruth
<1> QED
  BY <1>3, <1>6, <1>8, <1>types DEF FormInv

\* Every step of a form keeps the order and the truth.
LEMMA FormStep ==
  ASSUME FormInv, [FormNext]_formVars
  PROVE  FormOrder' /\ FormTruth'
<1>0. /\ form \in DOMAIN Forms /\ tasks \in Seq(Carrying)
      /\ held \in Stored /\ field \in Inputs
  BY DEF FormInv, FormTypeOK
<1>len. Len(tasks) \in Nat /\ DOMAIN tasks = 1 .. Len(tasks) /\ (tasks = <<>> <=> Len(tasks) = 0)
  BY <1>0, Lengths
<1>claims. /\ Form.claims \in {"sent", "widgets", "none"}
           /\ form = "pan" => Form.claims = "sent"
           /\ Form.cleared = "omitted" => Form.claims = "none"
  BY <1>0, FormFacts
<1>sends. Sent(field) \in Sendings
  BY <1>0, SentTypes
<1>same. form' = form /\ manner' = manner /\ Form' = Form
  BY DEF FormNext, Edit, Apply, Served, Answered, Loaded, NotLoaded, Applied, NotApplied,
     ApplyRaised, formVars, Form
<1>hasty. CASE manner = "hasty"
  BY <1>hasty, <1>same DEF FormOrder, FormTruth, Waits
<1>wait. CASE manner # "hasty"
  <2>len. Len(tasks) \in {0, 1}
    BY <1>wait DEF FormInv, FormOrder
  <2>1. CASE Edit
    <3>1. manner = "patient" => Len(tasks) = 0
      BY <1>len, <2>1 DEF Edit
    <3> QED
      BY <1>same, <1>wait, <2>1, <3>1 DEF Edit, FormInv, FormOrder, FormTruth, Waits
  <2>2. CASE Apply
    <3>1. Len(tasks) = 0
      BY <1>len, <1>wait, <2>2 DEF Apply
    <3>2. ApplyTask(Sent(field)) \in Carrying
      BY <1>0, <1>sends, SentTypes DEF ApplyTask, Carrying, Tasks
    <3>3. Len(tasks') = 1 /\ tasks'[1] = ApplyTask(Sent(field))
      BY <1>0, <2>2, <3>1, <3>2, AppendProperties DEF Apply
    <3>4. /\ tasks'[1].does = "apply" /\ tasks'[1].at = "sent" /\ tasks'[1].carries = Sent(field)
      BY <3>3 DEF ApplyTask
    <3>5. edited' = FALSE /\ UNCHANGED <<held, field, claim, lost>>
      BY <2>2 DEF Apply
    <3>6. FormOrder'
      BY <1>same, <3>3, <3>4, <3>5 DEF FormOrder, Sent
    <3>7. FormTruth'
      BY <1>same, <3>1, <3>3, <3>5 DEF FormInv, FormTruth, Waits
    <3> QED
      BY <3>6, <3>7
  <2>3. ASSUME NEW i \in DOMAIN tasks, Served(i) \/ Answered(i)
        PROVE  FormOrder' /\ FormTruth'
    <3>1. i = 1 /\ Len(tasks) = 1 /\ tasks[1] \in Carrying
      BY <1>0, <1>len, <2>len, ElementOfSeq
    <3>2. CASE Served(i)
      <4>1. PICK t : /\ tasks' = [tasks EXCEPT ![i] = t]
                     /\ \/ /\ tasks[i].does = "load" /\ held' = held
                           /\ t \in {[tasks[i] EXCEPT !.at = "ok", !.carries = held],
                                     [tasks[i] EXCEPT !.at = "refused"]}
                        \/ /\ tasks[i].does = "apply"
                           /\ \E result \in {"ok", "refused", "raised"} :
                                 /\ t = [tasks[i] EXCEPT !.at = result]
                                 /\ \/ result # "refused" /\ held' \in Written(tasks[i].carries)
                                    \/ result # "ok" /\ held' = held
        BY <3>2 DEF Served
      <4>2. t \in Carrying
        BY <1>0, <3>1, <4>1, SentTypes DEF Carrying, Tasks
      <4>3. Len(tasks') = 1 /\ tasks'[1] = t
        BY <1>0, <3>1, <4>1, <4>2, ExceptSeq
      <4>4. t.does = tasks[1].does
        BY <3>1, <4>1 DEF Carrying, Tasks
      <4>5. UNCHANGED <<field, claim, edited, lost>>
        BY <3>2 DEF Served
      <4>6. /\ t.at = "ok" /\ (t.does = "load" \/ t.carries # Blank) => t.carries = held'
            /\ t.at \in {"ok", "raised"} \/ held' = held
            /\ t.does = "load" => t.at # "raised"
            /\ t.does = "apply" => t.carries = tasks[1].carries
        BY <3>1, <4>1 DEF Carrying, Tasks, Written
      <4>7. FormOrder'
        BY <1>same, <3>1, <4>3, <4>4, <4>5, <4>6 DEF FormInv, FormOrder, Sent
      <4>8. tasks[1].at = "sent"
        BY <3>1, <3>2 DEF Served
      <4>9. FormTruth'
        BY <1>same, <3>1, <4>3, <4>5, <4>6, <4>8 DEF FormInv, FormTruth, Waits
      <4> QED
        BY <4>7, <4>9
    <3>3. Len(RemoveAt(tasks, 1)) = 0
      BY <1>0, <3>1, Removed
    <3>4. tasks[1].at = "ok" /\ (tasks[1].does = "load" \/ tasks[1].carries # Blank)
             => tasks[1].carries = held
      BY <1>wait, <3>1 DEF FormInv, FormOrder
    <3>5. CASE Loaded(i)
      <4>1. FormOrder'
        BY <3>1, <3>3, <3>5 DEF Loaded, FormOrder
      <4>2. FormTruth'
        BY <1>same, <3>1, <3>3, <3>4, <3>5 DEF Loaded, Shown, FormTruth
      <4> QED
        BY <4>1, <4>2
    <3>6. CASE NotLoaded(i) \/ ApplyRaised(i)
      BY <3>1, <3>3, <3>6 DEF NotLoaded, ApplyRaised, FormOrder, FormTruth
    <3>7. CASE Applied(i)
      <4>1. FormOrder'
        BY <3>1, <3>3, <3>7 DEF Applied, FormOrder
      <4>a. tasks[1].carries \in Sendings
        BY <3>1, <3>7 DEF Applied, Carrying
      <4>b. manner = "patient" => tasks[1].carries = Sent(field)
        BY <1>wait, <3>1, <3>7 DEF Applied, FormInv, FormOrder
      <4>2. manner = "patient" /\ field # Blank => field = held
        BY <3>1, <3>4, <3>7, <4>b DEF Applied, Sent
      <4>c. Form.claims # "none" => tasks[1].carries = held
        BY <1>claims, <3>1, <3>4, <3>7, <4>a, FormAssumption DEF Applied, Sendings
      <4>3. Waits => claim' \in {held, "none"}
        BY <1>claims, <3>1, <3>7, <4>b, <4>c DEF Applied, Waits
      <4>4. FormTruth'
        BY <1>same, <3>1, <3>3, <3>7, <4>2, <4>3 DEF Applied, FormTruth, Waits
      <4> QED
        BY <4>1, <4>4
    <3>8. CASE NotApplied(i)
      <4>1. tasks[1].at = "refused" /\ UNCHANGED <<held, field, claim, edited, lost>>
        BY <3>1, <3>8 DEF NotApplied
      <4>2. CASE Form.reloads
        <5>1. LoadTask \in Carrying
          BY DEF LoadTask, Carrying, Tasks
        <5>2. Len(tasks') = 1 /\ tasks'[1] = LoadTask
          BY <1>0, <3>1, <3>8, <4>2, <5>1, ExceptSeq DEF NotApplied
        <5>3. tasks'[1].does = "load" /\ tasks'[1].at = "sent"
          BY <5>2 DEF LoadTask
        <5>4. FormOrder'
          BY <5>2, <5>3 DEF FormOrder
        <5>5. FormTruth'
          BY <1>same, <3>1, <4>1, <5>2 DEF FormInv, FormTruth, Waits
        <5> QED
          BY <5>4, <5>5
      <4>3. CASE ~Form.reloads
        <5>1. Len(tasks') = 0
          BY <3>1, <3>3, <3>8, <4>3 DEF NotApplied
        <5>2. FormOrder'
          BY <5>1 DEF FormOrder
        <5>3. FormTruth'
          BY <1>same, <3>1, <4>1, <4>3 DEF FormInv, FormTruth, Waits
        <5> QED
          BY <5>2, <5>3
      <4> QED
        BY <4>2, <4>3
    <3> QED
      BY <2>3, <3>2, <3>5, <3>6, <3>7, <3>8 DEF Answered
  <2>4. CASE UNCHANGED formVars
    BY <1>same, <2>4 DEF formVars, FormInv, FormOrder, FormTruth, Waits, Sent
  <2> QED
    BY <2>1, <2>2, <2>3, <2>4 DEF FormNext
<1> QED
  BY <1>hasty, <1>wait

\* The inductive invariant of a form, and the types of its variables.
THEOREM FormInvariance == FormSpec => []FormInv
<1>1. FormInv /\ [FormNext]_formVars => FormInv'
  <2> SUFFICES ASSUME FormInv, [FormNext]_formVars
               PROVE  FormInv'
    OBVIOUS
  <2>1. FormTypeOK' /\ tasks' \in Seq(Carrying) /\ Carrying' = Carrying
    BY FormTyping DEF FormInv
  <2>2. FormOrder' /\ FormTruth'
    BY FormStep
  <2> QED
    BY <2>1, <2>2 DEF FormInv
<1> QED
  BY <1>1, FormInitInv, PTL DEF FormSpec

\* With no handler under way the label of a section claims the camera's setting and its widgets
\* show it, unless one was left cleared or cannot show it: for every section, any settings and any
\* number of edits and clicks, whatever was refused.
THEOREM FormTruthful == FormSpec => []FormIsTruthful
<1>1. FormInv => FormIsTruthful
  BY DEF FormInv, FormTruth, FormIsTruthful, Waits
<1> QED
  BY <1>1, FormInvariance, PTL

-----------------------------------------------------------------------------
(* The lists                                                               *)

Jobs == [does : {"load", "delete", "add"}, at : {"sent", "ok", "refused", "raised"},
         on : SUBSET Items]

\* A handler under way that ends with a row for i, or with a failure that is counted.
Promises(job, i) ==
    \/ job.does = "load" /\ (job.at \in {"sent", "refused"} \/ (job.at = "ok" /\ i \in job.on))
    \/ job.does # "load" /\ job.at = "ok"
    \/ job.at = "raised"

\* An item that was there when the last load started has a row or the promise of one.
NoneMissing == ~broken =>
    \A i \in items \ missed : rows[i] > 0 \/ \E k \in DOMAIN jobs : Promises(jobs[k], i)

\* With a user who waits there is one handler; a load finds the container empty and what it was
\* answered is still there, and only a change that was made leaves a row too many.
OneJob == visitor = "patient" =>
    /\ Len(jobs) \in {0, 1}
    /\ Len(jobs) = 1 /\ jobs[1].does = "load" =>
          rows = NoRows /\ (jobs[1].at = "ok" => jobs[1].on \subseteq items)
    /\ ~broken => \/ \A i \in Items : rows[i] <= IF i \in items THEN 1 ELSE 0
                  \/ Len(jobs) = 1 /\ jobs[1].does # "load" /\ jobs[1].at \in {"ok", "raised"}

\* The inductive invariant.
ListInv == ListTypeOK /\ NoneMissing /\ OneJob

\* A list that has just opened satisfies the invariant.
LEMMA ListInitInv == ListInit => ListInv
<1> SUFFICES ASSUME ListInit PROVE ListInv
  OBVIOUS
<1>1. Job("load", {}) \in Jobs /\ jobs = <<Job("load", {})>>
  BY DEF ListInit, Job, Jobs
<1>2. jobs \in Seq(Jobs) /\ Len(jobs) = 1 /\ jobs[1] = Job("load", {}) /\ 1 \in DOMAIN jobs
  BY <1>1
<1>3. ListTypeOK
  <2>1. 0 \in 0 .. MaxMoves /\ NoRows \in [Items -> Nat]
    BY ListAssumption DEF NoRows
  <2> QED
    BY <1>2, <2>1 DEF ListInit, ListTypeOK, Jobs
<1>4. jobs[1].does = "load" /\ jobs[1].at = "sent"
  BY <1>2 DEF Job
<1>5. \A i \in Items : rows[i] = 0
  BY DEF ListInit, NoRows
<1>6. NoneMissing
  BY <1>2, <1>4 DEF NoneMissing, Promises
<1>7. OneJob
  BY <1>2, <1>4, <1>5 DEF OneJob, ListInit
<1> QED
  BY <1>3, <1>6, <1>7 DEF ListInv

\* What a step does to the handlers: one is queued, one is answered or goes on, or one ends.
LEMMA JobsAreJobs ==
  ASSUME ListTypeOK
  PROVE  /\ jobs \in Seq(Jobs) /\ Len(jobs) \in Nat /\ DOMAIN jobs = 1 .. Len(jobs)
         /\ \A k \in DOMAIN jobs : jobs[k] \in Jobs
<1>1. jobs \in Seq(Jobs)
  BY DEF ListTypeOK, Jobs
<1> QED
  BY <1>1, Lengths, ElementOfSeq

\* A handler is queued last.
LEMMA JobQueued ==
  ASSUME ListTypeOK, NEW j \in Jobs, NEW q, q = Append(jobs, j)
  PROVE  /\ q \in Seq(Jobs) /\ Len(q) = Len(jobs) + 1
         /\ Len(jobs) + 1 \in DOMAIN q /\ q[Len(jobs) + 1] = j
         /\ \A k \in DOMAIN jobs : k \in DOMAIN q /\ q[k] = jobs[k]
<1>1. /\ q \in Seq(Jobs) /\ Len(q) = Len(jobs) + 1 /\ q[Len(jobs) + 1] = j
      /\ \A k \in 1 .. Len(jobs) : q[k] = jobs[k]
  BY JobsAreJobs, AppendProperties
<1>2. DOMAIN q = 1 .. Len(q)
  BY <1>1, Lengths
<1>3. Len(jobs) + 1 \in 1 .. Len(q) /\ \A k \in 1 .. Len(jobs) : k \in 1 .. Len(q)
  BY <1>1, JobsAreJobs
<1> QED
  BY <1>1, <1>2, <1>3, JobsAreJobs

\* A handler goes on where it is.
LEMMA JobReplaced ==
  ASSUME ListTypeOK, NEW k \in DOMAIN jobs, NEW j \in Jobs, NEW q, q = [jobs EXCEPT ![k] = j]
  PROVE  /\ q \in Seq(Jobs) /\ Len(q) = Len(jobs) /\ DOMAIN q = DOMAIN jobs /\ q[k] = j
         /\ \A l \in DOMAIN jobs \ {k} : q[l] = jobs[l]
BY JobsAreJobs, ExceptSeq

\* A handler ends; the others keep their places before and after it.
LEMMA JobEnded ==
  ASSUME ListTypeOK, NEW k \in DOMAIN jobs, NEW q, q = RemoveAt(jobs, k)
  PROVE  /\ q \in Seq(Jobs) /\ Len(q) = Len(jobs) - 1
         /\ \A l \in DOMAIN jobs \ {k} : \E m \in DOMAIN q : q[m] = jobs[l]
<1>1. /\ q \in Seq(Jobs) /\ Len(q) = Len(jobs) - 1
      /\ \A j \in 1 .. Len(jobs) - 1 : q[j] = IF j < k THEN jobs[j] ELSE jobs[j + 1]
  BY JobsAreJobs, Removed
<1>2. DOMAIN q = 1 .. Len(jobs) - 1
  BY <1>1, Lengths
<1>3. ASSUME NEW l \in DOMAIN jobs \ {k}
      PROVE  \E m \in DOMAIN q : q[m] = jobs[l]
  <2>1. l \in 1 .. Len(jobs) /\ k \in 1 .. Len(jobs) /\ l # k /\ Len(jobs) \in Nat
    BY JobsAreJobs
  <2>2. CASE l < k
    <3>1. l \in 1 .. Len(jobs) - 1
      BY <2>1, <2>2
    <3> QED
      BY <1>1, <1>2, <2>2, <3>1
  <2>3. CASE ~(l < k)
    <3>1. PICK m \in Int : m = l - 1
      BY <2>1
    <3>2. m \in 1 .. Len(jobs) - 1 /\ ~(m < k) /\ m + 1 = l
      BY <2>1, <2>3, <3>1
    <3> QED
      BY <1>1, <1>2, <3>2
  <2> QED
    BY <2>2, <2>3
<1> QED
  BY <1>1, <1>3

\* Every step of a list keeps the types.
LEMMA ListTyping == ListTypeOK /\ [ListNext]_listVars => ListTypeOK' /\ visitor' = visitor
<1> SUFFICES ASSUME ListTypeOK, [ListNext]_listVars PROVE ListTypeOK' /\ visitor' = visitor
  OBVIOUS
<1> DEFINE Rest == /\ list' \in DOMAIN Lists /\ visitor' = visitor
                   /\ items' \subseteq Items /\ missed' \subseteq Items
                   /\ rows' \in [Items -> Nat] /\ moves' \in 0..MaxMoves /\ broken' \in BOOLEAN
<1>0. /\ list \in DOMAIN Lists /\ visitor \in {"patient", "hasty"}
      /\ items \subseteq Items /\ missed \subseteq Items
      /\ rows \in [Items -> Nat] /\ moves \in 0..MaxMoves /\ broken \in BOOLEAN
  BY DEF ListTypeOK
<1>goal. ASSUME Rest, jobs' \in Seq(Jobs)
         PROVE  ListTypeOK' /\ visitor' = visitor
  BY <1>goal, <1>0 DEF ListTypeOK, Jobs
<1>job. \A s \in SUBSET Items : /\ Job("load", s) \in Jobs /\ Job("delete", s) \in Jobs
                                /\ Job("add", s) \in Jobs
  BY DEF Job, Jobs
<1>jobs. /\ \A j \in Jobs : Append(jobs, j) \in Seq(Jobs)
         /\ \A k \in DOMAIN jobs : \A j \in Jobs : [jobs EXCEPT ![k] = j] \in Seq(Jobs)
         /\ \A k \in DOMAIN jobs : RemoveAt(jobs, k) \in Seq(Jobs) /\ jobs[k] \in Jobs
  BY JobsAreJobs, JobQueued, JobReplaced, JobEnded
<1>rows. NoRows \in [Items -> Nat]
  BY DEF NoRows
<1>more. moves < MaxMoves => moves + 1 \in 0..MaxMoves
  BY <1>0, ListAssumption
<1> HIDE DEF Rest
<1>1. CASE Reload
  <2>1. Rest
    BY <1>0, <1>1, <1>rows, <1>more DEF Reload, Press, ClearRows, Rest
  <2>2. jobs' \in Seq(Jobs)
    BY <1>1, <1>job, <1>jobs DEF Reload, Press
  <2> QED
    BY <1>goal, <2>1, <2>2
<1>2. ASSUME NEW i \in Items, Delete(i) \/ Add(i)
      PROVE  ListTypeOK' /\ visitor' = visitor
  <2>1. Rest
    BY <1>0, <1>2, <1>more DEF Delete, Add, Press, Rest
  <2>2. jobs' \in Seq(Jobs)
    BY <1>2, <1>job, <1>jobs DEF Delete, Add, Press
  <2> QED
    BY <1>goal, <2>1, <2>2
<1>3. ASSUME NEW i \in Items, Arrive(i)
      PROVE  ListTypeOK' /\ visitor' = visitor
  <2>1. Rest
    BY <1>0, <1>3, <1>more DEF Arrive, Rest
  <2>2. jobs' \in Seq(Jobs)
    BY <1>3, JobsAreJobs DEF Arrive
  <2> QED
    BY <1>goal, <2>1, <2>2
<1>4. ASSUME NEW k \in DOMAIN jobs, ListRead(k) \/ ItemDeleted(k) \/ ItemAdded(k)
      PROVE  ListTypeOK' /\ visitor' = visitor
  <2>1. jobs[k] \in Jobs /\ jobs[k].on \subseteq Items
    BY <1>jobs DEF Jobs
  <2>2. Rest
    BY <1>0, <1>4, <2>1 DEF ListRead, ItemDeleted, ItemAdded, Rest
  <2>3. PICK t : /\ jobs' = [jobs EXCEPT ![k] = t]
                 /\ \/ t = [jobs[k] EXCEPT !.at = "ok", !.on = items]
                    \/ \E result \in {"ok", "refused", "raised"} :
                          t = [jobs[k] EXCEPT !.at = result]
    BY <1>4 DEF ListRead, ItemDeleted, ItemAdded
  <2>t. t \in Jobs
    BY <1>0, <2>1, <2>3 DEF Jobs
  <2>4. jobs' \in Seq(Jobs)
    BY <1>jobs, <2>3, <2>t
  <2> QED
    BY <1>goal, <2>2, <2>4
<1>5. ASSUME NEW k \in DOMAIN jobs, ShowRows(k)
      PROVE  ListTypeOK' /\ visitor' = visitor
  <2>1. rows' \in [Items -> Nat]
    BY <1>0, <1>5 DEF ShowRows
  <2>2. Rest
    BY <1>0, <1>5, <2>1 DEF ShowRows, Rest
  <2> QED
    BY <1>5, <1>goal, <1>jobs, <2>2 DEF ShowRows
<1>6. ASSUME NEW k \in DOMAIN jobs, LoadAgain(k) \/ GiveUp(k)
      PROVE  ListTypeOK' /\ visitor' = visitor
  <2>1. Rest
    BY <1>0, <1>6, <1>rows DEF LoadAgain, GiveUp, ClearRows, Rest
  <2> QED
    BY <1>6, <1>goal, <1>job, <1>jobs, <2>1 DEF LoadAgain, GiveUp
<1>7. CASE UNCHANGED listVars
  BY <1>7 DEF listVars, ListTypeOK
<1> QED
  BY <1>1, <1>2, <1>3, <1>4, <1>5, <1>6, <1>7 DEF ListNext

\* However loads overlap, a step that takes a promise away keeps it or counts its failure.
LEMMA MissingStep ==
  ASSUME ListTypeOK, NoneMissing, [ListNext]_listVars
  PROVE  NoneMissing'
<1> SUFFICES ASSUME ~broken', NEW i \in items', i \notin missed'
             PROVE  rows'[i] > 0 \/ \E k \in DOMAIN jobs' : Promises(jobs'[k], i)
  BY DEF NoneMissing
<1> DEFINE Brought == rows'[i] > 0 \/ \E k \in DOMAIN jobs' : Promises(jobs'[k], i)
<1>0. /\ items \subseteq Items /\ rows \in [Items -> Nat] /\ broken \in BOOLEAN
  BY DEF ListTypeOK
\* As before the step, when nothing is taken away.
<1>1. ASSUME ~broken, i \in items \ missed, rows'[i] >= rows[i],
             \A k \in DOMAIN jobs : Promises(jobs[k], i) =>
                \E m \in DOMAIN jobs' : Promises(jobs'[m], i)
      PROVE  Brought
  <2>1. rows[i] > 0 \/ \E k \in DOMAIN jobs : Promises(jobs[k], i)
    BY <1>1 DEF NoneMissing
  <2>2. CASE rows[i] > 0
    <3>1. i \in Items
      BY <1>0, <1>1
    <3>2. rows[i] \in Nat
      BY <1>0, <3>1
    <3>3. ListTypeOK'
      BY ListTyping
    <3>4. rows'[i] \in Nat
      BY <3>1, <3>3 DEF ListTypeOK
    <3> QED
      BY <1>1, <2>2, <3>2, <3>4
  <2> QED
    BY <1>1, <2>1, <2>2
<1>nat. \A x \in Items : rows[x] \in Nat /\ rows[x] >= rows[x]
  BY <1>0
<1>2. ASSUME Reload
      PROVE  Brought
  <2>1. Job("load", {}) \in Jobs /\ Promises(Job("load", {}), i)
    BY DEF Job, Jobs, Promises
  <2>2. Len(jobs) + 1 \in DOMAIN jobs' /\ jobs'[Len(jobs) + 1] = Job("load", {})
    BY <1>2, <2>1, JobQueued DEF Reload, Press
  <2> QED
    BY <2>1, <2>2
<1>3. ASSUME NEW x \in Items, Delete(x) \/ Add(x)
      PROVE  Brought
  <2>1. PICK j \in Jobs : jobs' = Append(jobs, j)
    <3>1. Job("delete", {x}) \in Jobs /\ Job("add", {x}) \in Jobs
      BY DEF Job, Jobs
    <3> QED
      BY <1>3, <3>1 DEF Delete, Add, Press
  <2>2. \A k \in DOMAIN jobs : k \in DOMAIN jobs' /\ jobs'[k] = jobs[k]
    BY <2>1, JobQueued
  <2>3. UNCHANGED <<items, missed, rows, broken>>
    BY <1>3 DEF Delete, Add
  <2> QED
    BY <1>0, <1>1, <1>nat, <2>2, <2>3
<1>4. ASSUME NEW x \in Items, Arrive(x)
      PROVE  Brought
  <2>1. UNCHANGED <<rows, jobs, broken>> /\ i \in items \ missed
    BY <1>4 DEF Arrive
  <2> QED
    BY <1>0, <1>1, <1>nat, <2>1
<1>5. ASSUME NEW k \in DOMAIN jobs, ListRead(k) \/ ItemDeleted(k) \/ ItemAdded(k)
      PROVE  Brought
  <2>1. jobs[k] \in Jobs /\ jobs[k].on \subseteq Items /\ jobs[k].at = "sent"
    BY <1>5, JobsAreJobs DEF Jobs, ListRead, ItemDeleted, ItemAdded
  <2>2. PICK t : /\ jobs' = [jobs EXCEPT ![k] = t]
                 /\ \/ /\ jobs[k].does = "load" /\ items' = items
                       /\ t \in {[jobs[k] EXCEPT !.at = "ok", !.on = items],
                                 [jobs[k] EXCEPT !.at = "refused"]}
                    \/ /\ jobs[k].does # "load" /\ items' \subseteq items
                       /\ \E result \in {"ok", "refused", "raised"} :
                             t = [jobs[k] EXCEPT !.at = result]
                    \/ /\ jobs[k].does # "load"
                       /\ t \in {[jobs[k] EXCEPT !.at = "ok"], [jobs[k] EXCEPT !.at = "raised"]}
    BY <1>5 DEF ListRead, ItemDeleted, ItemAdded
  <2>3. t \in Jobs /\ t.does = jobs[k].does
    BY <1>0, <2>1, <2>2 DEF Jobs
  <2>4. /\ DOMAIN jobs' = DOMAIN jobs /\ jobs'[k] = t
        /\ \A l \in DOMAIN jobs \ {k} : jobs'[l] = jobs[l]
    BY <2>2, <2>3, JobReplaced
  <2>5. UNCHANGED <<missed, rows, broken>>
    BY <1>5 DEF ListRead, ItemDeleted, ItemAdded
  <2>6. CASE i \in items
    <3>1. Promises(jobs[k], i) => Promises(t, i)
      BY <2>1, <2>2, <2>6 DEF Promises, Jobs
    <3> QED
      BY <1>0, <1>1, <1>nat, <2>4, <2>5, <2>6, <3>1
  <2>7. CASE i \notin items
    <3>1. Promises(t, i)
      BY <2>1, <2>2, <2>7 DEF Promises, Jobs
    <3> QED
      BY <2>4, <3>1
  <2> QED
    BY <2>6, <2>7
<1>6. ASSUME NEW k \in DOMAIN jobs, ShowRows(k)
      PROVE  Brought
  <2>1. /\ UNCHANGED <<items, missed, broken>>
        /\ rows' = [x \in Items |-> rows[x] + IF x \in jobs[k].on THEN 1 ELSE 0]
        /\ jobs' = RemoveAt(jobs, k) /\ jobs[k].does = "load" /\ jobs[k].at = "ok"
    BY <1>6 DEF ShowRows
  <2>2. \A l \in DOMAIN jobs \ {k} : \E m \in DOMAIN jobs' : jobs'[m] = jobs[l]
    BY <2>1, JobEnded
  <2>3. i \in Items /\ rows[i] \in Nat
    BY <1>0, <2>1
  <2>4. CASE i \in jobs[k].on
    BY <2>1, <2>3, <2>4
  <2>5. CASE i \notin jobs[k].on
    <3>1. ~Promises(jobs[k], i)
      BY <2>1, <2>5 DEF Promises
    <3>2. rows'[i] >= rows[i]
      BY <2>1, <2>3, <2>5
    <3> QED
      BY <1>1, <2>1, <2>2, <3>1, <3>2
  <2> QED
    BY <2>4, <2>5
<1>7. ASSUME NEW k \in DOMAIN jobs, LoadAgain(k)
      PROVE  Brought
  <2>1. Job("load", {}) \in Jobs /\ Promises(Job("load", {}), i)
    BY DEF Job, Jobs, Promises
  <2>2. jobs'[k] = Job("load", {}) /\ k \in DOMAIN jobs'
    BY <1>7, <2>1, JobReplaced DEF LoadAgain
  <2> QED
    BY <2>1, <2>2
<1>8. ASSUME NEW k \in DOMAIN jobs, GiveUp(k)
      PROVE  Brought
  <2>1. /\ UNCHANGED <<items, missed, rows>> /\ jobs' = RemoveAt(jobs, k)
        /\ jobs[k].at \in {"refused", "raised"}
    BY <1>8 DEF GiveUp
  <2>2. ~broken /\ jobs[k].at # "raised" /\ jobs[k].does # "load"
    BY <1>8, Zenon DEF GiveUp
  <2>3. ~Promises(jobs[k], i)
    BY <2>1, <2>2 DEF Promises
  <2>4. \A l \in DOMAIN jobs \ {k} : \E m \in DOMAIN jobs' : jobs'[m] = jobs[l]
    BY <2>1, JobEnded
  <2> QED
    BY <1>0, <1>1, <1>nat, <2>1, <2>2, <2>3, <2>4
<1>9. ASSUME UNCHANGED listVars
      PROVE  Brought
  BY <1>0, <1>1, <1>9, <1>nat DEF listVars
<1> HIDE DEF Brought
<1>10. Brought
  BY <1>2, <1>3, <1>4, <1>5, <1>6, <1>7, <1>8, <1>9 DEF ListNext
<1> QED
  BY <1>10 DEF Brought

\* The rows of a user who waits.
LEMMA OneJobStep ==
  ASSUME ListTypeOK, OneJob, [ListNext]_listVars
  PROVE  OneJob'
<1>0. /\ items \subseteq Items /\ rows \in [Items -> Nat] /\ broken \in BOOLEAN
  BY DEF ListTypeOK
<1>jobs. Len(jobs) \in Nat /\ DOMAIN jobs = 1 .. Len(jobs) /\ (jobs = <<>> <=> Len(jobs) = 0)
  BY JobsAreJobs, Lengths
<1>same. visitor' = visitor
  BY ListTyping
<1> SUFFICES ASSUME visitor = "patient" PROVE OneJob'
  BY <1>same DEF OneJob
<1> DEFINE Exact == \A i \in Items : rows[i] <= IF i \in items THEN 1 ELSE 0
<1>one. /\ Len(jobs) \in {0, 1}
        /\ Len(jobs) = 1 /\ jobs[1].does = "load" =>
              rows = NoRows /\ (jobs[1].at = "ok" => jobs[1].on \subseteq items)
        /\ ~broken => Exact \/ (Len(jobs) = 1 /\ jobs[1].does # "load" /\ jobs[1].at \in {"ok", "raised"})
  BY DEF OneJob
<1>goal. ASSUME Len(jobs') \in {0, 1},
                Len(jobs') = 1 /\ jobs'[1].does = "load" =>
                   rows' = NoRows /\ (jobs'[1].at = "ok" => jobs'[1].on \subseteq items'),
                ~broken' => \/ Exact'
                            \/ Len(jobs') = 1 /\ jobs'[1].does # "load" /\ jobs'[1].at \in {"ok", "raised"}
         PROVE  OneJob'
  BY <1>goal DEF OneJob
<1>empty. \A i \in Items : NoRows[i] = 0 /\ NoRows[i] <= IF i \in items THEN 1 ELSE 0
  BY DEF NoRows
<1>load. Job("load", {}) \in Jobs /\ Job("load", {}).does = "load" /\ Job("load", {}).at = "sent"
  BY DEF Job, Jobs
<1>1. CASE Reload
  <2>1. Len(jobs') = 1 /\ jobs'[1] = Job("load", {})
    BY <1>1, <1>jobs, <1>load, JobQueued DEF Reload, Press
  <2>2. rows' = NoRows /\ items' = items
    BY <1>1 DEF Reload, ClearRows
  <2>3. Exact'
    BY <1>empty, <2>2
  <2> HIDE DEF Exact
  <2> QED
    BY <1>goal, <1>load, <2>1, <2>2, <2>3
<1>2. ASSUME NEW x \in Items, Delete(x) \/ Add(x)
      PROVE  OneJob'
  <2>1. PICK j \in Jobs : /\ jobs' = Append(jobs, j) /\ j.does # "load"
    <3>1. /\ Job("delete", {x}) \in Jobs /\ Job("delete", {x}).does = "delete"
          /\ Job("add", {x}) \in Jobs /\ Job("add", {x}).does = "add"
      BY DEF Job, Jobs
    <3> QED
      BY <1>2, <3>1 DEF Delete, Add, Press
  <2>2. Len(jobs) = 0
    BY <1>2, <1>jobs DEF Delete, Add, Press
  <2>3. Len(jobs') = 1 /\ jobs'[1] = j
    BY <2>1, <2>2, JobQueued
  <2>4. UNCHANGED <<items, rows, broken>>
    BY <1>2 DEF Delete, Add
  <2>5. ~broken => Exact
    BY <1>one, <2>2
  <2> QED
    BY <1>goal, <2>1, <2>3, <2>4, <2>5
<1>3. ASSUME NEW x \in Items, Arrive(x)
      PROVE  OneJob'
  <2>1. /\ items' = items \cup {x} /\ UNCHANGED <<rows, jobs, broken>>
    BY <1>3 DEF Arrive
  <2>2. Exact => Exact'
    BY <1>0, <2>1
  <2> HIDE DEF Exact
  <2> QED
    BY <1>goal, <1>one, <2>1, <2>2
<1>4. ASSUME NEW k \in DOMAIN jobs
      PROVE  k = 1 /\ Len(jobs) = 1 /\ jobs[1] \in Jobs
  BY <1>jobs, <1>one, JobsAreJobs
<1>5. ASSUME NEW k \in DOMAIN jobs, ListRead(k)
      PROVE  OneJob'
  <2>1. k = 1 /\ Len(jobs) = 1 /\ jobs[1] \in Jobs
    BY <1>4
  <2>2. PICK t : /\ jobs' = [jobs EXCEPT ![k] = t]
                 /\ t \in {[jobs[k] EXCEPT !.at = "ok", !.on = items],
                           [jobs[k] EXCEPT !.at = "refused"]}
    BY <1>5 DEF ListRead
  <2>3. /\ jobs[1].does = "load" /\ UNCHANGED <<items, rows, broken>>
    BY <1>5, <2>1 DEF ListRead
  <2>4. t \in Jobs /\ t.does = "load" /\ (t.at = "ok" => t.on = items)
    BY <1>0, <2>1, <2>2, <2>3 DEF Jobs
  <2>5. Len(jobs') = 1 /\ jobs'[1] = t
    BY <2>1, <2>2, <2>4, JobReplaced
  <2>6. ~broken => Exact
    BY <1>one, <2>3
  <2> QED
    BY <1>goal, <1>one, <2>1, <2>3, <2>4, <2>5, <2>6
<1>6. ASSUME NEW k \in DOMAIN jobs, ItemDeleted(k) \/ ItemAdded(k)
      PROVE  OneJob'
  <2>1. k = 1 /\ Len(jobs) = 1 /\ jobs[1] \in Jobs
    BY <1>4
  <2>2. PICK result \in {"ok", "refused", "raised"} :
           /\ jobs' = [jobs EXCEPT ![k] = [jobs[k] EXCEPT !.at = result]]
           /\ result = "refused" => items' = items
    BY <1>6 DEF ItemDeleted, ItemAdded
  <2>3. jobs[1].does # "load" /\ jobs[1].at = "sent" /\ UNCHANGED <<rows, broken>>
    BY <1>6, <2>1 DEF ItemDeleted, ItemAdded
  <2> DEFINE t == [jobs[1] EXCEPT !.at = result]
  <2>4. t \in Jobs /\ t.does = jobs[1].does /\ t.at = result
    BY <2>1 DEF Jobs
  <2>5. Len(jobs') = 1 /\ jobs'[1] = t
    BY <2>1, <2>2, <2>4, JobReplaced
  <2> HIDE DEF t
  <2>6. ~broken => Exact
    BY <1>one, <2>3
  <2> QED
    BY <1>goal, <2>2, <2>3, <2>4, <2>5, <2>6
<1>7. ASSUME NEW k \in DOMAIN jobs, ShowRows(k)
      PROVE  OneJob'
  <2>1. k = 1 /\ Len(jobs) = 1 /\ jobs[1] \in Jobs
    BY <1>4
  <2>2. /\ rows = NoRows /\ jobs[1].on \subseteq items /\ UNCHANGED <<items, broken>>
        /\ rows' = [x \in Items |-> rows[x] + IF x \in jobs[1].on THEN 1 ELSE 0]
    BY <1>7, <1>one, <2>1 DEF ShowRows
  <2>3. Exact'
    BY <2>2 DEF NoRows
  <2>4. Len(jobs') = 0
    BY <1>7, <2>1, JobEnded DEF ShowRows
  <2> HIDE DEF Exact
  <2> QED
    BY <1>goal, <2>3, <2>4
<1>8. ASSUME NEW k \in DOMAIN jobs, LoadAgain(k)
      PROVE  OneJob'
  <2>1. k = 1 /\ Len(jobs) = 1
    BY <1>4
  <2>2. Len(jobs') = 1 /\ jobs'[1] = Job("load", {})
    BY <1>8, <1>load, <2>1, JobReplaced DEF LoadAgain
  <2>3. rows' = NoRows /\ items' = items
    BY <1>8 DEF LoadAgain, ClearRows
  <2>4. Exact'
    BY <1>empty, <2>3
  <2> HIDE DEF Exact
  <2> QED
    BY <1>goal, <1>load, <2>2, <2>3, <2>4
<1>9. ASSUME NEW k \in DOMAIN jobs, GiveUp(k)
      PROVE  OneJob'
  <2>1. k = 1 /\ Len(jobs) = 1
    BY <1>4
  <2>2. Len(jobs') = 0 /\ UNCHANGED <<items, rows>>
    BY <1>9, <2>1, JobEnded DEF GiveUp
  <2>3. ~broken' => ~broken /\ jobs[1].at \notin {"ok", "raised"}
    <3>1. ~broken' => ~broken /\ jobs[1].at # "raised"
      BY <1>9, <2>1, Zenon DEF GiveUp
    <3>2. jobs[1].at # "ok"
      BY <1>9, <2>1 DEF GiveUp
    <3> QED
      BY <3>1, <3>2
  <2>4. ~broken' => Exact
    BY <1>one, <2>3
  <2> QED
    BY <1>goal, <2>2, <2>4
<1>10. CASE UNCHANGED listVars
  <2>1. UNCHANGED <<items, rows, jobs, broken>>
    BY <1>10 DEF listVars
  <2> QED
    BY <1>goal, <1>one, <2>1
<1> QED
  BY <1>1, <1>2, <1>3, <1>5, <1>6, <1>7, <1>8, <1>9, <1>10 DEF ListNext

\* The inductive invariant of a list, and the types of its variables.
THEOREM ListInvariance == ListSpec => []ListInv
<1>1. ListInv /\ [ListNext]_listVars => ListInv'
  BY ListTyping, MissingStep, OneJobStep DEF ListInv
<1> QED
  BY <1>1, ListInitInv, PTL DEF ListSpec

\* However many loads overlap, once they are through no item that was there when the last of them
\* began is missing; and for a user who waits there is one row at most for each item there is and
\* none for another.
THEOREM ListTruthful == ListSpec => []ListIsTruthful
<1>1. ListInv => ListIsTruthful
  <2> SUFFICES ASSUME ListInv, jobs = <<>>, ~broken PROVE ListIsTruthful
    BY DEF ListIsTruthful
  <2>1. Len(jobs) = 0 /\ DOMAIN jobs = {}
    OBVIOUS
  <2>2. \A i \in items \ missed : rows[i] > 0
    BY <2>1 DEF ListInv, NoneMissing
  <2>3. visitor = "patient" => \A i \in Items : rows[i] <= IF i \in items THEN 1 ELSE 0
    BY <2>1 DEF ListInv, OneJob
  <2> QED
    BY <2>2, <2>3 DEF ListIsTruthful
<1> QED
  BY <1>1, ListInvariance, PTL

-----------------------------------------------------------------------------
(* All of them together                                                    *)

\* In the composition every variable has its type.
THEOREM PageTypeCorrectness == MCSpec => []TypesOK
<1> DEFINE All == <<toggleVars, formVars, listVars, playerVars, snapVars, part>>
           Inv == ToggleInv /\ FormInv /\ ListInv /\ PlayerInv /\ SnapInv
<1>1. MCInit => Inv
  BY ToggleInitInv, FormInitInv, ListInitInv, PlayerInitInv, SnapInitInv DEF MCInit
<1>2. Inv /\ [MCNext]_All => Inv'
  <2>1. [MCNext]_All => /\ [ToggleNext]_toggleVars /\ [FormNext]_formVars /\ [ListNext]_listVars
                        /\ [PlayerNext]_playerVars /\ [SnapNext]_snapVars
    BY Zenon DEF MCNext
  <2>2. FormInv /\ [FormNext]_formVars => FormInv'
    BY FormTyping, FormStep DEF FormInv
  <2>3. ListInv /\ [ListNext]_listVars => ListInv'
    BY ListTyping, MissingStep, OneJobStep DEF ListInv
  <2> QED
    BY <2>1, <2>2, <2>3, ToggleInvStep, PlayerStep, SnapStep
<1>3. Inv => TypesOK
  BY DEF TypesOK, ToggleInv, FormInv, ListInv, PlayerInv, SnapInv
<1> QED
  BY <1>1, <1>2, <1>3, PTL DEF MCSpec
=============================================================================
