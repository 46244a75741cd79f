----------------------------- MODULE CloudProofs -----------------------------
(***************************************************************************)
(* Proofs about Firmware, for every set of pages and of updates; about     *)
(* LocalData, for every set of views and of versions; and about the run of *)
(* the four modules of the cloud together.                                 *)
(***************************************************************************)
EXTENDS MCCloud, CloudBridgeProofs, CameraConfigProofs, TLAPS

-----------------------------------------------------------------------------
(* Firmware                                                                *)

\* Where a page is between the confirmation of its user and the request for the install.
Busy(p) == step[p] \in {"check", "put"}

\* What is on offer is known to every page that is about to read it, unless an install that has
\* just ended took it away.
OfferIsFresh == \A p \in Pages : Busy(p) => offer \in fresh[p] \cup {NoTarget}

\* Users who wait for each other are not busy at once.
OneBusy == \A p, q \in Pages : waits /\ Busy(p) /\ Busy(q) => p = q

\* The inductive invariant.
FwInv == FwTypeOK /\ OfferIsFresh /\ OneBusy /\ InstallsAFreshOffer /\ InstallsOnce

\* Pages that have just opened satisfy the invariant of the update.
LEMMA FwInitInv == FwInit => FwInv
<1> SUFFICES ASSUME FwInit
             PROVE  FwInv
  OBVIOUS
<1>1. /\ offer \in Targets \cup {NoTarget} /\ updating \in BOOLEAN /\ waits \in BOOLEAN
      /\ panel \in [Pages -> [label : {"loading", "unavailable", "installing", "up to date",
                                       "available"},
                              button : BOOLEAN, target : Targets \cup {NoTarget}]]
  BY DEF FwInit
<1>2. /\ step \in [Pages -> {"ask", "show", "idle", "check", "put"}]
      /\ fresh \in [Pages -> SUBSET (Targets \cup {NoTarget})]
  BY DEF FwInit
<1>3. status \in [Pages -> [offer : Targets \cup {NoTarget}, updating : BOOLEAN,
                            known : BOOLEAN]]
  BY DEF FwInit, Unread
<1>4. \A p \in Pages : step[p] = "ask"
  BY DEF FwInit
<1> QED
  BY <1>1, <1>2, <1>3, <1>4 DEF FwInv, FwTypeOK, OfferIsFresh, OneBusy, InstallsAFreshOffer,
                                InstallsOnce, Busy

\* Every step of the update keeps the types.
LEMMA FwTyping == FwTypeOK /\ [FwNext]_fwVars => FwTypeOK'
<1> SUFFICES ASSUME FwTypeOK, [FwNext]_fwVars
             PROVE  FwTypeOK'
  OBVIOUS
<1> DEFINE Reads == [offer : Targets \cup {NoTarget}, updating : BOOLEAN, known : BOOLEAN]
<1>0. Document \in Reads /\ Unread \in Reads
  BY DEF FwTypeOK, Document, Unread
<1> USE DEF FwTypeOK
<1>1. CASE Offer
  BY <1>1 DEF Offer
<1>2. CASE Reboot
  BY <1>2 DEF Reboot
<1>3. ASSUME NEW p \in Pages, LoadFw(p)
      PROVE  FwTypeOK'
  <2>1. status' \in [Pages -> Reads]
    BY <1>0, <1>3 DEF LoadFw
  <2> QED
    BY <1>3, <2>1 DEF LoadFw
<1>4. ASSUME NEW p \in Pages, ShowFw(p)
      PROVE  FwTypeOK'
  <2>1. status[p] \in Reads
    OBVIOUS
  <2>2. panel' \in [Pages -> [label : {"loading", "unavailable", "installing", "up to date",
                                       "available"},
                              button : BOOLEAN, target : Targets \cup {NoTarget}]]
    <3>1. CASE ~status[p].known
      <4>1. panel' = [panel EXCEPT ![p] = [@ EXCEPT !.label = "unavailable", !.button = FALSE]]
        BY <1>4, <3>1 DEF ShowFw
      <4> QED
        BY <4>1
    <3>2. CASE status[p].known /\ status[p].updating
      <4>1. panel' = [panel EXCEPT ![p] = [@ EXCEPT !.label = "installing", !.button = FALSE]]
        BY <1>4, <3>2 DEF ShowFw
      <4> QED
        BY <4>1
    <3>3. CASE status[p].known /\ ~status[p].updating /\ status[p].offer = NoTarget
      <4>1. panel' = [panel EXCEPT ![p] = [@ EXCEPT !.label = "up to date", !.button = FALSE]]
        BY <1>4, <3>3 DEF ShowFw
      <4> QED
        BY <4>1
    <3>4. CASE status[p].known /\ ~status[p].updating /\ status[p].offer # NoTarget
      <4>1. panel' = [panel EXCEPT ![p] = [label |-> "available", button |-> TRUE,
                                           target |-> status[p].offer]]
        BY <1>4, <3>4 DEF ShowFw
      <4> QED
        BY <2>1, <4>1
    <3> QED
      BY <3>1, <3>2, <3>3, <3>4
  <2> QED
    BY <1>4, <2>2 DEF ShowFw
<1>5. ASSUME NEW p \in Pages, Confirm(p)
      PROVE  FwTypeOK'
  BY <1>5 DEF Confirm
<1>6. ASSUME NEW p \in Pages, Check(p)
      PROVE  FwTypeOK'
  <2>1. PICK d \in {Document, Unread} :
           /\ status' = [status EXCEPT ![p] = d]
           /\ step' = [step EXCEPT ![p] =
                          IF d.known /\ ~d.updating /\ d.offer # NoTarget THEN "put" ELSE "ask"]
    BY <1>6 DEF Check
  <2>2. status' \in [Pages -> Reads]
    BY <1>0, <2>1
  <2>3. step' \in [Pages -> {"ask", "show", "idle", "check", "put"}]
    BY <2>1
  <2> QED
    BY <1>6, <2>2, <2>3 DEF Check
<1>7. ASSUME NEW p \in Pages, Install(p)
      PROVE  FwTypeOK'
  <2>1. step' \in [Pages -> {"ask", "show", "idle", "check", "put"}] /\ updating' \in BOOLEAN
    BY <1>7 DEF Install
  <2>2. panel' \in [Pages -> [label : {"loading", "unavailable", "installing", "up to date",
                                       "available"},
                              button : BOOLEAN, target : Targets \cup {NoTarget}]]
    <3>1. CASE panel' = [panel EXCEPT ![p].label = "installing", ![p].button = FALSE]
      BY <3>1
    <3>2. CASE UNCHANGED panel
      BY <3>2
    <3> QED
      BY <1>7, <3>1, <3>2 DEF Install
  <2> QED
    BY <1>7, <2>1, <2>2 DEF Install
<1>8. ASSUME NEW p \in Pages, InstallRefused(p)
      PROVE  FwTypeOK'
  BY <1>8 DEF InstallRefused
<1>9. ASSUME NEW p \in Pages, FwRaises(p)
      PROVE  FwTypeOK'
  BY <1>9 DEF FwRaises
<1>10. CASE UNCHANGED fwVars
  BY <1>10 DEF fwVars
<1> QED
  BY <1>1, <1>2, <1>3, <1>4, <1>5, <1>6, <1>7, <1>8, <1>9, <1>10 DEF FwNext

\* Every step of the update keeps the invariant.
LEMMA FwStep == FwInv /\ [FwNext]_fwVars => FwInv'
<1> SUFFICES ASSUME FwInv, [FwNext]_fwVars
             PROVE  FwInv'
  OBVIOUS
<1>0. FwTypeOK'
  BY FwTyping DEF FwInv
<1> DEFINE Others == OfferIsFresh /\ OneBusy /\ InstallsAFreshOffer /\ InstallsOnce
<1> USE DEF FwInv, FwTypeOK, OfferIsFresh, OneBusy, InstallsAFreshOffer, InstallsOnce, Busy
<1>1. CASE Offer
  BY <1>1 DEF Offer
<1>2. CASE Reboot
  BY <1>2 DEF Reboot
<1>3. ASSUME NEW p \in Pages, LoadFw(p)
      PROVE  Others'
  BY <1>3 DEF LoadFw, Document, Unread
<1>4. ASSUME NEW p \in Pages, ShowFw(p)
      PROVE  Others'
  BY <1>4 DEF ShowFw
<1>5. ASSUME NEW p \in Pages, Confirm(p)
      PROVE  Others'
  BY <1>5 DEF Confirm
<1>6. ASSUME NEW p \in Pages, Check(p)
      PROVE  Others'
  <2>1. PICK d \in {Document, Unread} :
           /\ status' = [status EXCEPT ![p] = d]
           /\ step' = [step EXCEPT ![p] =
                          IF d.known /\ ~d.updating /\ d.offer # NoTarget THEN "put" ELSE "ask"]
    BY <1>6 DEF Check
  <2>2. /\ step[p] = "check"
        /\ UNCHANGED <<offer, updating, waits, panel, fresh>>
    BY <1>6 DEF Check
  <2>3. step'[p] \in {"put", "ask"} /\ status'[p] = d
    BY <2>1
  <2>4. \A q \in Pages : q # p => step'[q] = step[q] /\ status'[q] = status[q]
    BY <2>1
  \* Only a document that was read now, and that is not being installed, leads on.
  <2>5. step'[p] = "put" => ~updating /\ d.offer = offer /\ offer # NoTarget
    <3>1. CASE d = Unread
      BY <2>1, <3>1 DEF Unread
    <3>2. CASE d = Document
      BY <2>1, <3>2 DEF Document
    <3> QED
      BY <3>1, <3>2
  <2>6. OfferIsFresh' /\ OneBusy'
    BY <2>2, <2>3, <2>4
  <2>7. InstallsAFreshOffer'
    BY <2>2, <2>3, <2>4, <2>5
  <2>8. InstallsOnce'
    BY <2>2, <2>3, <2>4, <2>5
  <2> QED
    BY <2>6, <2>7, <2>8
<1>7. ASSUME NEW p \in Pages, Install(p)
      PROVE  Others'
  <2>1. /\ step' = [step EXCEPT ![p] = "idle"] /\ updating' = TRUE
        /\ UNCHANGED <<offer, waits, status, fresh>>
    BY <1>7 DEF Install
  <2>2. \A q \in Pages : step'[q] = IF q = p THEN "idle" ELSE step[q]
    BY <2>1
  \* No other page is busy, so no other page may still ask for an install.
  <2>3. ASSUME NEW q \in Pages, waits, q # p
        PROVE  step[q] # "put"
    BY <1>7, <2>3 DEF Install
  <2>4. InstallsOnce'
    BY <2>1, <2>2, <2>3
  <2>5. OfferIsFresh' /\ OneBusy' /\ InstallsAFreshOffer'
    BY <2>1, <2>2
  <2> QED
    BY <2>4, <2>5
<1>8. ASSUME NEW p \in Pages, InstallRefused(p)
      PROVE  Others'
  BY <1>8 DEF InstallRefused
<1>9. ASSUME NEW p \in Pages, FwRaises(p)
      PROVE  Others'
  BY <1>9 DEF FwRaises
<1>10. CASE UNCHANGED fwVars
  BY <1>10 DEF fwVars
<1> QED
  BY <1>0, <1>1, <1>2, <1>3, <1>4, <1>5, <1>6, <1>7, <1>8, <1>9, <1>10 DEF FwNext

\* The inductive invariant holds in every reachable state.
THEOREM FwInvariance == FwSpec => []FwInv
BY FwInitInv, FwStep, PTL DEF FwSpec

\* Every variable stays in its type.
THEOREM FwTypeCorrectness == FwSpec => []FwTypeOK
<1>1. FwInv => FwTypeOK
  BY DEF FwInv
<1> QED
  BY <1>1, FwInvariance, PTL

\* install_firmware asks for an update that was on offer after the user confirmed, whatever the
\* page had announced and however often the vendor has changed the offer.
THEOREM FreshOffer == FwSpec => []InstallsAFreshOffer
<1>1. FwInv => InstallsAFreshOffer
  BY DEF FwInv
<1> QED
  BY <1>1, FwInvariance, PTL

\* Users who wait for each other never start an install while another one runs, however many pages
\* still show their button.
THEOREM OneInstall == FwSpec => []InstallsOnce
<1>1. FwInv => InstallsOnce
  BY DEF FwInv
<1> QED
  BY <1>1, FwInvariance, PTL

-----------------------------------------------------------------------------
(* Local data                                                              *)

\* An answer that a view holds and that is of a current request says what the interface is; so
\* does the cache once it has taken such an answer.
AnswersAreTrue == \A w \in current : view[w].at = "answered" =>
                                        view[w].answer \in {iface, "unclear"}
CacheIsTrue == learned => cache = iface
AnswersExist == \A w \in Views : view[w].at = "answered" => view[w].answer # "none"

\* The inductive invariant.
LocalInv == LocalTypeOK /\ AnswersExist /\ AnswersAreTrue /\ CacheIsTrue

ViewRecords == [at : {"closed", "asking", "answered", "setup", "resolve", "streaming", "idle"}
                       \cup Opening,
                password : Passwords,
                answer : States \cup {"none", "unclear"}, localOnly : BOOLEAN,
                source : {"none", "local", "cloud", "snapshots", "refused"}]

\* With no view open the invariant of the local data holds.
LEMMA LocalInitInv == LocalInit => LocalInv
<1> SUFFICES ASSUME LocalInit
             PROVE  LocalInv
  OBVIOUS
<1>1. NewView \in ViewRecords
  BY DEF NewView, ViewRecords, Passwords
<1>2. view \in [Views -> ViewRecords]
  BY <1>1 DEF LocalInit
<1>3. iface \in States /\ gen2 \in BOOLEAN /\ lan \in BOOLEAN /\ learned \in BOOLEAN
  BY Zenon DEF LocalInit
<1>4. /\ firmware \in Versions
      /\ password \in Passwords
      /\ cache \in States \cup {"unknown"}
      /\ current \subseteq Views
  BY DEF LocalInit
<1>5. AnswersExist
  BY DEF LocalInit, AnswersExist, NewView
<1>6. AnswersAreTrue /\ CacheIsTrue
  BY Zenon DEF LocalInit, AnswersAreTrue, CacheIsTrue
<1> QED
  BY <1>2, <1>3, <1>4, <1>5, <1>6 DEF LocalInv, LocalTypeOK, ViewRecords

\* Every step of the local data keeps the types.
LEMMA LocalTyping == LocalTypeOK /\ AnswersExist /\ [LocalNext]_localVars => LocalTypeOK'
<1> SUFFICES ASSUME LocalTypeOK, AnswersExist, [LocalNext]_localVars
             PROVE  LocalTypeOK'
  OBVIOUS
<1> USE DEF LocalTypeOK, States, Opening
<1>1. CASE Switch
  BY <1>1 DEF Switch
<1>2. CASE Update
  BY <1>2 DEF Update
<1>3. CASE Save
  <2>1. PICK p \in Passwords, S \in SUBSET {w \in Views : view[w].at # "closed"} :
           /\ password' \in {p, password}
           /\ view' = [w \in Views |-> [view[w] EXCEPT !.password = IF w \in S THEN p ELSE @]]
    BY <1>3 DEF Save
  <2>2. view' \in [Views -> ViewRecords]
    BY <2>1 DEF ViewRecords
  <2> QED
    BY <1>3, <2>1, <2>2 DEF Save, ViewRecords
<1>4. ASSUME NEW w \in Views, Open(w)
      PROVE  LocalTypeOK'
  <2>1. PICK at \in {"asking", "setup"} :
           view' = [view EXCEPT ![w].at = at, ![w].password = password]
    BY <1>4 DEF Open
  <2>2. view' \in [Views -> ViewRecords]
    BY <2>1 DEF ViewRecords
  <2> QED
    BY <1>4, <2>2 DEF Open, ViewRecords
<1>5. ASSUME NEW w \in Views, Answered(w)
      PROVE  LocalTypeOK'
  <2>1. PICK a \in {iface, "unclear"} :
           view' = [view EXCEPT ![w].at = "answered", ![w].answer = a]
    BY <1>5 DEF Answered
  <2>2. view' \in [Views -> ViewRecords]
    BY <2>1 DEF ViewRecords
  <2> QED
    BY <1>5, <2>2 DEF Answered, ViewRecords
<1>6. ASSUME NEW w \in Views, Cached(w)
      PROVE  LocalTypeOK'
  <2>1. view' \in [Views -> ViewRecords]
    BY <1>6 DEF Cached, ViewRecords
  <2>2. cache' \in States \cup {"unknown"}
    BY <1>6 DEF Cached, AnswersExist
  <2>3. learned' \in BOOLEAN
    <3>1. CASE view[w].answer = "unclear"
      BY <1>6, <3>1 DEF Cached
    <3>2. CASE view[w].answer # "unclear"
      <4>1. learned' = (w \in current)
        BY <1>6, <3>2, Zenon DEF Cached
      <4>2. (w \in current) \in BOOLEAN
        OBVIOUS
      <4> QED
        BY <4>1, <4>2, Zenon
    <3> QED
      BY <3>1, <3>2
  <2> QED
    BY <1>6, <2>1, <2>2, <2>3 DEF Cached, ViewRecords
<1>7. ASSUME NEW w \in Views, NEW go2rtc \in BOOLEAN, SetUp(w, go2rtc)
      PROVE  LocalTypeOK'
  BY <1>7 DEF SetUp, To, Wanted
<1>8. ASSUME NEW w \in Views, Decide(w) \/ Opened(w)
      PROVE  LocalTypeOK'
  <2>1. CASE Decide(w)
    BY <2>1 DEF Decide, To, Failed
  <2>2. CASE Opened(w)
    BY <2>2 DEF Opened, To, Failed
  <2> QED
    BY <1>8, <2>1, <2>2
<1>9. ASSUME NEW w \in Views, Again(w)
      PROVE  LocalTypeOK'
  BY <1>9 DEF Again, To
<1>10. ASSUME NEW w \in Views, Leave(w)
       PROVE  LocalTypeOK'
  BY <1>10 DEF Leave, NewView, Passwords
<1>11. CASE UNCHANGED localVars
  BY <1>11 DEF localVars
<1> QED
  BY <1>1, <1>2, <1>3, <1>4, <1>5, <1>6, <1>7, <1>8, <1>9, <1>10, <1>11 DEF LocalNext

\* Every step of the local data keeps the invariant.
LEMMA LocalStep == LocalInv /\ [LocalNext]_localVars => LocalInv'
<1> SUFFICES ASSUME LocalInv, [LocalNext]_localVars
             PROVE  LocalInv'
  OBVIOUS
<1>0. LocalTypeOK'
  BY LocalTyping DEF LocalInv
<1> DEFINE True == AnswersExist /\ AnswersAreTrue /\ CacheIsTrue
<1> USE DEF LocalInv, LocalTypeOK, AnswersExist, AnswersAreTrue, CacheIsTrue
<1>1. CASE Switch
  BY <1>1 DEF Switch
<1>2. CASE Update
  BY <1>2 DEF Update
<1>3. CASE Save
  <2>1. /\ \A w \in Views : view'[w].at = view[w].at /\ view'[w].answer = view[w].answer
        /\ UNCHANGED <<iface, cache, current, learned>>
    BY <1>3 DEF Save
  <2>2. current \subseteq Views /\ AnswersExist /\ AnswersAreTrue /\ CacheIsTrue
    OBVIOUS
  <2>3. AnswersExist'
    BY <2>1, <2>2
  <2>4. AnswersAreTrue' /\ CacheIsTrue'
    BY <2>1, <2>2
  <2> QED
    BY <1>0, <2>3, <2>4
<1>4. ASSUME NEW w \in Views, Open(w)
      PROVE  True'
  <2>1. PICK at \in {"asking", "setup"} :
           view' = [view EXCEPT ![w].at = at, ![w].password = password]
    BY <1>4 DEF Open
  <2> QED
    BY <1>4, <2>1 DEF Open
<1>5. ASSUME NEW w \in Views, Answered(w)
      PROVE  True'
  <2>1. PICK a \in {iface, "unclear"} :
           view' = [view EXCEPT ![w].at = "answered", ![w].answer = a]
    BY <1>5 DEF Answered
  <2>2. view'[w].answer \in {iface, "unclear"} /\ "none" \notin {iface, "unclear"}
    BY <2>1 DEF States
  <2>3. \A u \in Views \ {w} : view'[u] = view[u]
    BY <2>1
  <2>4. current' = current \cup {w} /\ UNCHANGED <<iface, cache, learned>>
    BY <1>5 DEF Answered
  <2>5. AnswersExist' /\ AnswersAreTrue'
    BY <2>2, <2>3, <2>4
  <2> QED
    BY <2>4, <2>5
<1>6. ASSUME NEW w \in Views, Cached(w)
      PROVE  True'
  BY <1>6 DEF Cached
<1>7. ASSUME NEW w \in Views, NEW go2rtc \in BOOLEAN, SetUp(w, go2rtc)
      PROVE  True'
  BY <1>7 DEF SetUp, To
<1>8. ASSUME NEW w \in Views, Decide(w) \/ Opened(w)
      PROVE  True'
  <2>1. CASE Decide(w)
    BY <2>1 DEF Decide, To
  <2>2. CASE Opened(w)
    BY <2>2 DEF Opened, To
  <2> QED
    BY <1>8, <2>1, <2>2
<1>9. ASSUME NEW w \in Views, Again(w)
      PROVE  True'
  BY <1>9 DEF Again, To
<1>10. ASSUME NEW w \in Views, Leave(w)
       PROVE  True'
  <2>1. /\ view' = [view EXCEPT ![w] = NewView]
        /\ current' = current \ {w} /\ UNCHANGED <<iface, cache, learned>>
    BY <1>10 DEF Leave
  <2>2. view'[w].at = "closed" /\ \A u \in Views \ {w} : view'[u] = view[u]
    BY <2>1 DEF NewView
  <2> QED
    BY <2>1, <2>2
<1>11. CASE UNCHANGED localVars
  BY <1>11 DEF localVars
<1> QED
  BY <1>0, <1>1, <1>2, <1>3, <1>4, <1>5, <1>6, <1>7, <1>8, <1>9, <1>10, <1>11 DEF LocalNext

\* The inductive invariant of the local data holds in every reachable state.
LEMMA LocalInvariance == LocalSpec => []LocalInv
BY LocalInitInv, LocalStep, PTL DEF LocalSpec

\* Once an answer has told that the interface is active, no view whose entry has a good password
\* asks the cloud for a stream, as long as it stays active: for any number of views that are
\* opened, fail, refresh and are set up again in any order.
THEOREM NoCloudStream == LocalSpec => FailsClosed
<1> DEFINE NoNewCloud == learned /\ iface = "active" =>
              \A w \in Views : view[w].password = "good" /\ view'[w].at \in Opening =>
                                   view[w].at \in Opening
<1>1. LocalInv /\ [LocalNext]_localVars => [NoNewCloud]_localVars
  <2> SUFFICES ASSUME LocalInv, LocalNext, learned, iface = "active",
                      NEW v \in Views, view[v].password = "good", view'[v].at \in Opening
               PROVE  view[v].at \in Opening
    BY DEF LocalInv
  <2>0. Wanted(v)
    BY DEF Wanted, LocalInv, CacheIsTrue
  <2> USE DEF LocalInv, LocalTypeOK, Opening
  <2>1. CASE Switch \/ Update \/ Save
    <3>1. CASE Save
      <4>1. view'[v].at = view[v].at
        BY <3>1 DEF Save
      <4> QED
        BY <4>1
    <3> QED
      BY <2>1, <3>1 DEF Switch, Update
  <2>2. ASSUME NEW w \in Views, Open(w) \/ Answered(w) \/ Cached(w)
        PROVE  view[v].at \in Opening
    <3>1. CASE Open(w)
      BY <3>1 DEF Open
    <3>2. CASE Answered(w)
      BY <3>2 DEF Answered
    <3>3. CASE Cached(w)
      BY <3>3 DEF Cached
    <3> QED
      BY <2>2, <3>1, <3>2, <3>3
  <2>3. ASSUME NEW w \in Views, NEW go2rtc \in BOOLEAN, SetUp(w, go2rtc)
        PROVE  view[v].at \in Opening
    BY <2>3 DEF SetUp, To
  \* The resolver looks at the cache again, and the cache is true.
  <2>4. ASSUME NEW w \in Views, Decide(w)
        PROVE  view[v].at \in Opening
    <3>1. CASE w = v
      BY <2>0, <2>4, <3>1 DEF Decide, To
    <3>2. CASE w # v
      BY <2>4, <3>2 DEF Decide, To
    <3> QED
      BY <3>1, <3>2
  <2>5. ASSUME NEW w \in Views, Opened(w)
        PROVE  view[v].at \in Opening
    BY <2>5 DEF Opened, To
  <2>6. ASSUME NEW w \in Views, Again(w) \/ Leave(w)
        PROVE  view[v].at \in Opening
    <3>1. CASE Again(w)
      BY <3>1 DEF Again, To
    <3>2. CASE Leave(w)
      BY <3>2 DEF Leave, NewView
    <3> QED
      BY <2>6, <3>1, <3>2
  <2> QED
    BY <2>1, <2>2, <2>3, <2>4, <2>5, <2>6 DEF LocalNext
<1> QED
  BY <1>1, LocalInvariance, PTL DEF LocalSpec, FailsClosed

-----------------------------------------------------------------------------
(* Firmware versions                                                       *)

\* A version that is newer than one that reaches the minimum reaches it as well.
LEMMA NewerIsAtLeast ==
  ASSUME NEW v \in Seq(Nat), NEW w \in Seq(Nat), NEW min \in Seq(Nat),
         AtLeast(v, min), Newer(w, v)
  PROVE  AtLeast(w, min)
<1>1. PICK k \in 1..Len(w) : /\ w[k] > Part(v, k)
                             /\ \A j \in 1..(k - 1) : w[j] = Part(v, j)
  BY DEF Newer, Part
<1> DEFINE Above(u, n) == n <= Len(u) /\ u[n] > min[n] /\ \A j \in 1..(n - 1) : u[j] = min[j]
<1>2. ASSUME NEW n \in 1..Len(min), Above(v, n)
      PROVE  AtLeast(w, min)
  <2>1. CASE n < k
    <3>1. ASSUME NEW j \in 1..n
          PROVE  w[j] = v[j]
      <4>1. j \in 1..(k - 1) /\ j <= Len(v)
        BY <1>2, <2>1
      <4> QED
        BY <1>1, <4>1 DEF Part
    <3>2. Above(w, n)
      BY <1>2, <2>1, <3>1
    <3> QED
      BY <3>2 DEF AtLeast
  <2>2. CASE k <= n
    <3>1. k \in 1..Len(min) /\ k <= Len(v)
      BY <1>2, <2>2
    <3>2. v[k] >= min[k]
      BY <1>2, <2>2, <3>1
    <3>3. w[k] > min[k]
      BY <1>1, <3>1, <3>2 DEF Part
    <3>4. \A j \in 1..(k - 1) : w[j] = min[j]
      BY <1>1, <1>2, <2>2, <3>1 DEF Part
    <3>5. Above(w, k)
      BY <3>3, <3>4
    <3> QED
      BY <3>1, <3>5 DEF AtLeast
  <2> QED
    BY <2>1, <2>2
<1>3. ASSUME Len(v) >= Len(min), \A j \in 1..Len(min) : v[j] = min[j]
      PROVE  AtLeast(w, min)
  <2>1. CASE k <= Len(min)
    <3>1. w[k] > min[k] /\ \A j \in 1..(k - 1) : w[j] = min[j]
      BY <1>1, <1>3, <2>1 DEF Part
    <3> QED
      BY <2>1, <3>1 DEF AtLeast
  <2>2. CASE k > Len(min)
    <3>1. Len(w) >= Len(min) /\ \A j \in 1..Len(min) : w[j] = min[j]
      BY <1>1, <1>3, <2>2 DEF Part
    <3> QED
      BY <3>1 DEF AtLeast
  <2> QED
    BY <2>1, <2>2
<1> QED
  BY <1>2, <1>3 DEF AtLeast

\* No update of a camera's firmware, from any version to any newer one, takes the local data
\* interface away: the comparison of firmware_supports_ldi respects the order of versions.
THEOREM UpdatesKeep == LocalSpec => UpdatesKeepTheInterface
<1>1. LocalTypeOK /\ [LocalNext]_localVars => [ShouldQuery => ShouldQuery']_localVars
  <2> SUFFICES ASSUME LocalTypeOK, LocalNext, ShouldQuery
               PROVE  ShouldQuery'
    OBVIOUS
  <2>1. CASE Update
    <3>1. PICK v \in Versions : Newer(v, firmware) /\ firmware' = v
      BY <2>1 DEF Update
    <3>2. v \in Seq(Nat) /\ firmware \in Seq(Nat) /\ MinFirmware \in Seq(Nat)
      BY LocalAssumption DEF LocalTypeOK
    <3>3. AtLeast(v, MinFirmware)
      BY <3>1, <3>2, NewerIsAtLeast DEF ShouldQuery, FirmwareSupports
    <3>4. v # << >>
      BY <3>1, <3>2 DEF Newer
    <3> QED
      BY <2>1, <3>1, <3>3, <3>4 DEF Update, ShouldQuery, FirmwareSupports
  <2>2. CASE UNCHANGED <<gen2, firmware>>
    BY <2>2 DEF ShouldQuery
  <2>3. Update \/ UNCHANGED <<gen2, firmware>>
    BY DEF LocalNext, Switch, Save, Open, Answered, Cached, SetUp, Decide, Opened, Again,
           Leave
  <2> QED
    BY <2>1, <2>2, <2>3
<1>2. LocalInv => LocalTypeOK
  BY DEF LocalInv
<1> QED
  BY <1>1, <1>2, LocalInvariance, PTL DEF LocalSpec, UpdatesKeepTheInterface

-----------------------------------------------------------------------------
(* The four together                                                       *)

\* The inductive invariant of the whole: each part's, whichever part the behaviour is about.
PartsInv == CloudInv /\ FwInv /\ ConfigInv /\ LocalInv

\* The run starts with every part in one of its initial states.
LEMMA PartsInitInv == MCInit => PartsInv
<1> SUFFICES ASSUME MCInit
             PROVE  PartsInv
  OBVIOUS
<1>1. CloudInit /\ FwInit /\ ConfigInit /\ LocalInit
  BY Zenon DEF MCInit
<1> QED
  BY <1>1, CloudInitInv, FwInitInv, InitInv, LocalInitInv DEF PartsInv

\* A step of the whole is a step of one part or leaves the part alone.
LEMMA OnePartSteps ==
  ASSUME [MCNext]_<<cloudVars, fwVars, configVars, localVars, part>>
  PROVE  /\ [CloudNext]_cloudVars /\ [FwNext]_fwVars
         /\ [ConfigNext]_configVars /\ [LocalNext]_localVars
BY Zenon DEF MCNext

\* Every variable of the four modules keeps its type, in the run that sets them side by side:
\* for any number of threads, pages, tabs and views.
THEOREM CloudTypes == MCSpec => []TypesOK
<1>1. PartsInv /\ [MCNext]_<<cloudVars, fwVars, configVars, localVars, part>> => PartsInv'
  BY OnePartSteps, CloudStep, FwStep, NextInv, LocalStep DEF PartsInv
<1>2. PartsInv => TypesOK
  BY DEF PartsInv, CloudInv, FwInv, ConfigInv, LocalInv, TypesOK
<1> QED
  BY <1>1, <1>2, PartsInitInv, PTL DEF MCSpec

=============================================================================
