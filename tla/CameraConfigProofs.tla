------------------------- MODULE CameraConfigProofs -------------------------
(***************************************************************************)
(* Proofs about CameraConfig, for any number of cameras, tabs, tokens and  *)
(* objects.                                                                *)
(***************************************************************************)
EXTENDS CameraConfig, SequenceTheorems, TLAPS

\* A careful user has one dashboard on its way.
OneDashboard ==
    \A b, c \in Tabs : /\ tab[b].at \in {"asking", "copied"}
                       /\ tab[c].at \in {"asking", "copied"}
                       => b = c

\* A dashboard of the loaded configuration has asked for the cameras that are in it.
AsksForTheLoaded ==
    \A b \in Tabs : tab[b].at = "asking" /\ tab[b].cfg = storage
                       => tab[b].cams = cfgs[storage].cams

\* What it is about to put there holds what the user may find.
CopiesAreKept ==
    \A b \in Tabs : tab[b].at = "copied" /\ tab[b].cfg = storage
                       => \A i \in Ids : LocalOf(tab[b].fresh, i) \in asked[i]

CarefulInv == careful => /\ Distinct
                         /\ \A i \in Ids : Kept(i)
                         /\ OneDashboard /\ AsksForTheLoaded /\ CopiesAreKept

\* The inductive invariant.
ConfigInv == ConfigTypeOK /\ CarefulInv

-----------------------------------------------------------------------------
(* Entries *)

\* A mapping of camera dictionaries has a set of ids and a record for each of them.
LEMMA EntriesApart ==
  ASSUME NEW e \in Entries
  PROVE  /\ DOMAIN e \in SUBSET Ids
         /\ e \in [DOMAIN e -> [name : Names, local : Locals]]
<1>1. PICK I \in SUBSET Ids : e \in [I -> [name : Names, local : Locals]]
  BY DEF Entries
<1> QED
  BY <1>1

\* A function from cameras to entries is a dictionary of cameras.
LEMMA EntriesTogether ==
  ASSUME NEW I \in SUBSET Ids, NEW e \in [I -> [name : Names, local : Locals]]
  PROVE  e \in Entries
  BY DEF Entries

\* A local field is a value, or the default.
LEMMA LocalIsLocal ==
  ASSUME NEW e \in Entries, NEW i
  PROVE  LocalOf(e, i) \in Locals
  BY EntriesApart, ConfigAssumption DEF LocalOf

\* get_cameras gives every camera its own local field, where no two have one title.
LEMMA FreshKeeps ==
  ASSUME NEW known \in Entries, title \in [Ids -> Names]
  PROVE  /\ Fresh(known) \in Entries
         /\ Distinct => \A i \in Ids : LocalOf(Fresh(known), i) = LocalOf(known, i)
<1>1. Listed \in SUBSET Ids /\ Fresh(known) \in [Listed -> [name : Names, local : Locals]]
  BY LocalIsLocal DEF Fresh, Listed
<1>2. Fresh(known) \in Entries
  BY <1>1, EntriesTogether
<1>3. ASSUME Distinct, NEW i \in Ids
      PROVE  LocalOf(Fresh(known), i) = LocalOf(known, i)
  <2>0. i \in Listed
    BY <1>3 DEF Distinct, Listed
  <2>1. Fresh(known)[i].local = LocalOf(known, i) /\ i \in DOMAIN Fresh(known)
    BY <2>0 DEF Fresh
  <2> QED
    BY <2>1 DEF LocalOf
<1> QED
  BY <1>2, <1>3

\* Writing a local field of a camera that is there leaves the others alone.
LEMMA WrittenField ==
  ASSUME NEW e \in Entries, NEW i \in DOMAIN e, NEW v \in Locals
  PROVE  /\ [e EXCEPT ![i].local = v] \in Entries
         /\ LocalOf([e EXCEPT ![i].local = v], i) = v
         /\ \A j \in Ids \ {i} : LocalOf([e EXCEPT ![i].local = v], j) = LocalOf(e, j)
<1> DEFINE w == [e EXCEPT ![i].local = v]
<1>1. DOMAIN e \in SUBSET Ids /\ e \in [DOMAIN e -> [name : Names, local : Locals]]
  BY EntriesApart
<1>2. w \in [DOMAIN e -> [name : Names, local : Locals]]
  BY <1>1
<1>3. w \in Entries
  BY <1>1, <1>2, EntriesTogether
<1>4. w[i].local = v
  BY <1>1
<1>5. \A j \in DOMAIN e \ {i} : w[j] = e[j]
  BY <1>1
<1> QED
  BY <1>2, <1>3, <1>4, <1>5 DEF LocalOf

-----------------------------------------------------------------------------
(* The invariant *)

\* Every reference leads somewhere.
LEMMA References ==
  ASSUME ConfigTypeOK
  PROVE  /\ \A n \in DOMAIN cfgs : cfgs[n] \in [token : Nat, cams : DOMAIN cams]
         /\ \A n \in DOMAIN cams : cams[n] \in Entries
<1>1. cfgs \in Seq([token : Nat, cams : DOMAIN cams]) /\ cams \in Seq(Entries)
  BY DEF ConfigTypeOK
<1> DEFINE C == [token : Nat, cams : DOMAIN cams]
<1> HIDE DEF C
<1>2. cfgs \in Seq(C)
  BY <1>1 DEF C
<1>3. \A n \in DOMAIN cfgs : cfgs[n] \in C
  BY <1>2
<1>4. \A n \in DOMAIN cams : cams[n] \in Entries
  BY <1>1
<1> QED
  BY <1>3, <1>4 DEF C

\* A sequence over a set is one over every larger set.
LEMMA SeqWidens ==
  ASSUME NEW S, NEW T, S \subseteq T, NEW s \in Seq(S)
  PROVE  s \in Seq(T)
<1>1. Len(s) \in Nat /\ s \in [1..Len(s) -> T]
  OBVIOUS
<1> QED
  BY <1>1, SeqDef

\* A mapping of cameras more leaves the references valid.
LEMMA CamsAppended ==
  ASSUME cams \in Seq(Entries), NEW e \in Entries
  PROVE  /\ Append(cams, e) \in Seq(Entries)
         /\ DOMAIN Append(cams, e) = DOMAIN cams \cup {Len(cams) + 1}
         /\ \A n \in DOMAIN cams : Append(cams, e)[n] = cams[n]
         /\ Append(cams, e)[Len(cams) + 1] = e
  OBVIOUS

\* A program that starts satisfies the invariant.
LEMMA InitInv == ConfigInit => ConfigInv
<1> SUFFICES ASSUME ConfigInit
             PROVE  ConfigInv
  OBVIOUS
<1> USE DEF ConfigInit
<1>1. PICK known \in SUBSET Listed :
         file = [token |-> 0, cams |-> [i \in known |-> [name |-> title[i], local |-> NoLocal]]]
  OBVIOUS
<1>2. title \in [Ids -> Names]
  OBVIOUS
<1>3. known \in SUBSET Ids /\ file.cams \in [known -> [name : Names, local : Locals]]
  BY <1>1, <1>2, ConfigAssumption DEF Listed
<1>4. file.cams \in Entries
  BY <1>3, EntriesTogether
<1>5. file.token = 0 /\ file \in [token : Nat, cams : Entries]
  BY <1>1, <1>4
<1>6. cams \in Seq(Entries) /\ DOMAIN cams = {1} /\ cams[1] = file.cams
  BY <1>4
<1>7. cfgs \in Seq([token : Nat, cams : DOMAIN cams]) /\ DOMAIN cfgs = {1} /\ cfgs[1].cams = 1
  BY <1>5, <1>6
<1>8. Closed.fresh \in Entries
  <2>1. Closed.fresh \in [{} -> [name : Names, local : Locals]]
    BY DEF Closed
  <2> QED
    BY <2>1, EntriesTogether
<1>9. ConfigTypeOK
  <2>1. tab \in [Tabs -> [at : {"closed", "open", "resolving", "asking", "copied"},
                          cfg : DOMAIN cfgs, cams : DOMAIN cams, fresh : Entries]]
    BY <1>6, <1>7, <1>8 DEF Closed
  <2>2. asked \in [Ids -> SUBSET Locals]
    BY ConfigAssumption
  <2> QED
    BY <1>2, <1>5, <1>6, <1>7, <2>1, <2>2 DEF ConfigTypeOK
<1>10. ASSUME NEW i \in Ids
       PROVE  Kept(i)
  <2>1. LocalOf(file.cams, i) = NoLocal
    BY <1>1 DEF LocalOf
  <2>2. cams[cfgs[storage].cams] = file.cams
    BY <1>6, <1>7
  <2> QED
    BY <2>1, <2>2 DEF Kept
<1>11. \A b \in Tabs : tab[b].at = "closed"
  BY DEF Closed
<1> QED
  BY <1>9, <1>10, <1>11 DEF ConfigInv, CarefulInv, OneDashboard, AsksForTheLoaded, CopiesAreKept

\* A reload: the new configuration is the file's, and no page has it yet.
LEMMA LoadedKeeps ==
  ASSUME ConfigInv, Loaded, UNCHANGED <<careful, title, file, asked>>,
         \/ UNCHANGED tab
         \/ tab' = [b \in Tabs |-> Closed]
  PROVE  ConfigInv'
<1> USE DEF ConfigInv, ConfigTypeOK
<1>1. file.cams \in Entries
  OBVIOUS
<1>2. /\ cams' \in Seq(Entries)
      /\ DOMAIN cams' = DOMAIN cams \cup {Len(cams) + 1}
      /\ cams'[Len(cams) + 1] = file.cams
  BY <1>1, CamsAppended DEF Loaded
<1>3. /\ cfgs' \in Seq([token : Nat, cams : DOMAIN cams'])
      /\ DOMAIN cfgs' = DOMAIN cfgs \cup {Len(cfgs) + 1}
      /\ cfgs'[Len(cfgs) + 1].cams = Len(cams) + 1
      /\ storage' = Len(cfgs) + 1
  <2> DEFINE new == [token |-> file.token, cams |-> Len(cams) + 1]
             C == [token : Nat, cams : DOMAIN cams']
  <2>1. new \in C
    BY <1>2
  <2>2. cfgs \in Seq(C)
    <3>1. [token : Nat, cams : DOMAIN cams] \subseteq C
      BY <1>2
    <3>2. cfgs \in Seq([token : Nat, cams : DOMAIN cams])
      OBVIOUS
    <3> HIDE DEF C
    <3> QED
      BY <3>1, <3>2, SeqWidens
  <2>3. cfgs' = Append(cfgs, new) /\ storage' = Len(cfgs) + 1
    BY DEF Loaded
  <2> HIDE DEF C
  <2>4. cfgs' \in Seq(C) /\ DOMAIN cfgs' = DOMAIN cfgs \cup {Len(cfgs) + 1}
                         /\ cfgs'[Len(cfgs) + 1] = new
    BY <2>1, <2>2, <2>3
  <2> QED
    BY <2>3, <2>4 DEF C
<1>4. tab' \in [Tabs -> [at : {"closed", "open", "resolving", "asking", "copied"},
                         cfg : DOMAIN cfgs', cams : DOMAIN cams', fresh : Entries]]
  <2>1. CASE UNCHANGED tab
    BY <2>1, <1>2, <1>3
  <2>2. CASE tab' = [b \in Tabs |-> Closed]
    <3>1. Closed.fresh \in [{} -> [name : Names, local : Locals]]
      BY DEF Closed
    <3>2. Closed.fresh \in Entries
      BY <3>1, EntriesTogether
    <3>3. 1 \in DOMAIN cfgs' /\ 1 \in DOMAIN cams'
      BY <1>2, <1>3
    <3> QED
      BY <2>2, <3>2, <3>3 DEF Closed
  <2> QED
    BY <2>1, <2>2
<1>5. ConfigTypeOK'
  BY <1>2, <1>3, <1>4, Zenon
<1>6. ASSUME careful', NEW i \in Ids
      PROVE  Kept(i)'
  <2>1. LocalOf(file.cams, i) \in asked[i]
    BY <1>6 DEF CarefulInv, Kept
  <2>2. cams'[cfgs'[storage'].cams] = file.cams
    BY <1>2, <1>3
  <2> QED
    BY <2>1, <2>2 DEF Kept
<1>7. \A b \in Tabs : \/ tab'[b].at = "closed"
                      \/ tab'[b] = tab[b] /\ tab'[b].cfg # storage'
  <2>1. \A b \in Tabs : tab[b].cfg # Len(cfgs) + 1
    BY LenProperties
  <2> QED
    BY <1>3, <2>1 DEF Closed
<1>8. careful' => (OneDashboard /\ AsksForTheLoaded /\ CopiesAreKept)'
  BY <1>7 DEF CarefulInv, OneDashboard, AsksForTheLoaded, CopiesAreKept
<1> QED
  BY <1>5, <1>6, <1>8 DEF CarefulInv, Distinct

\* The steps of one page that leave the configuration and its cameras alone.
LEMMA PagesKeep ==
  ASSUME ConfigInv, NEW b \in Tabs, UNCHANGED <<careful, title, file, cfgs, cams, storage, asked>>,
         \/ Close(b) \/ OpenSettings(b) \/ OpenCamera(b) \/ Resolved(b)
         \/ AskCameras(b) \/ CamerasListed(b) \/ CamerasCached(b)
  PROVE  ConfigInv'
<1> USE DEF ConfigInv, ConfigTypeOK
<1> DEFINE Page == [at : {"closed", "open", "resolving", "asking", "copied"},
                    cfg : DOMAIN cfgs, cams : DOMAIN cams, fresh : Entries]
<1>1. /\ storage \in DOMAIN cfgs
      /\ tab[b] \in Page
      /\ cfgs[tab[b].cfg].cams \in DOMAIN cams
      /\ cfgs[storage].cams \in DOMAIN cams
      /\ cams[tab[b].cams] \in Entries
  <2>1. tab[b] \in Page
    OBVIOUS
  <2>2. \A n \in DOMAIN cfgs : cfgs[n] \in [token : Nat, cams : DOMAIN cams]
    BY References
  <2>3. \A n \in DOMAIN cams : cams[n] \in Entries
    BY References
  <2> QED
    BY <2>1, <2>2, <2>3
<1>2. Closed \in Page
  <2>1. Closed.fresh \in [{} -> [name : Names, local : Locals]]
    BY DEF Closed
  <2>2. Closed.fresh \in Entries
    BY <2>1, EntriesTogether
  <2>3. 1 \in DOMAIN cfgs /\ 1 \in DOMAIN cams
    OBVIOUS
  <2> QED
    BY <2>2, <2>3 DEF Closed
<1>3. Distinct => \A i \in Ids : LocalOf(Fresh(cams[tab[b].cams]), i) = LocalOf(cams[tab[b].cams], i)
  BY <1>1, FreshKeeps
<1>4. Fresh(cams[tab[b].cams]) \in Entries
  BY <1>1, FreshKeeps
<1>5. \/ tab' = [tab EXCEPT ![b] = Closed]
      \/ /\ tab[b].at = "closed" /\ Alone
         /\ tab' = [tab EXCEPT ![b] = [Closed EXCEPT !.at = "asking", !.cfg = storage,
                                                     !.cams = cfgs[storage].cams]]
      \/ /\ tab[b].at = "closed"
         /\ \/ tab' = [tab EXCEPT ![b] = [Closed EXCEPT !.at = "open", !.cfg = storage,
                                                        !.cams = cfgs[storage].cams]]
            \/ tab' = [tab EXCEPT ![b] = [Closed EXCEPT !.at = "resolving", !.cfg = storage]]
      \/ /\ tab[b].at = "resolving"
         /\ tab' = [tab EXCEPT ![b].at = "open", ![b].cams = cfgs[tab[b].cfg].cams]
      \/ /\ tab[b].at = "asking"
         /\ tab' = [tab EXCEPT ![b].at = "copied", ![b].fresh = Fresh(cams[tab[b].cams])]
  BY DEF Close, OpenSettings, OpenCamera, Resolved, AskCameras, CamerasListed, CamerasCached
<1>6. tab'[b] \in Page /\ \A c \in Tabs \ {b} : tab'[c] = tab[c]
  <2>1. \A c \in Tabs \ {b} : tab'[c] = tab[c]
    BY <1>5
  <2>2. \/ tab'[b] = Closed
        \/ tab'[b] = [Closed EXCEPT !.at = "asking", !.cfg = storage, !.cams = cfgs[storage].cams]
        \/ tab'[b] = [Closed EXCEPT !.at = "open", !.cfg = storage, !.cams = cfgs[storage].cams]
        \/ tab'[b] = [Closed EXCEPT !.at = "resolving", !.cfg = storage]
        \/ tab'[b] = [tab[b] EXCEPT !.at = "open", !.cams = cfgs[tab[b].cfg].cams]
        \/ tab'[b] = [tab[b] EXCEPT !.at = "copied", !.fresh = Fresh(cams[tab[b].cams])]
    <3>1. tab \in [Tabs -> Page]
      OBVIOUS
    <3> HIDE DEF ConfigInv, ConfigTypeOK, Page
    <3> QED
      BY <1>5, <3>1
  <2> HIDE DEF ConfigInv
  <2>3. tab'[b] \in Page
    <3>1. CASE tab'[b] = Closed
      BY <1>2, <3>1
    <3>2. CASE tab'[b] = [Closed EXCEPT !.at = "resolving", !.cfg = storage]
      BY <1>1, <1>2, <3>2
    <3>3. CASE \/ tab'[b] = [Closed EXCEPT !.at = "asking", !.cfg = storage,
                                           !.cams = cfgs[storage].cams]
               \/ tab'[b] = [Closed EXCEPT !.at = "open", !.cfg = storage,
                                           !.cams = cfgs[storage].cams]
      BY <1>1, <1>2, <3>3
    <3>4. CASE tab'[b] = [tab[b] EXCEPT !.at = "open", !.cams = cfgs[tab[b].cfg].cams]
      BY <1>1, <3>4
    <3>5. CASE tab'[b] = [tab[b] EXCEPT !.at = "copied", !.fresh = Fresh(cams[tab[b].cams])]
      <4> HIDE DEF ConfigTypeOK
      <4> QED
        BY <1>1, <1>4, <3>5
    <3> QED
      BY <2>2, <3>1, <3>2, <3>3, <3>4, <3>5
  <2> QED
    BY <2>1, <2>3
<1>7. ConfigTypeOK'
  <2>1. tab' \in [Tabs -> Page]
    <3>1. DOMAIN tab' = Tabs /\ tab' = [c \in Tabs |-> tab'[c]]
      BY <1>5
    <3> QED
      BY <1>6, <3>1
  <2> QED
    BY <2>1
<1>8. careful => \A i \in Ids : Kept(i)'
  BY DEF CarefulInv, Kept
<1>9. \/ tab'[b].at \notin {"asking", "copied"}
      \/ /\ Alone
         /\ tab'[b].at = "asking" /\ tab'[b].cams = cfgs[storage].cams
      \/ /\ tab[b].at = "asking" /\ tab'[b].at = "copied" /\ tab'[b].cfg = tab[b].cfg
         /\ tab'[b].fresh = Fresh(cams[tab[b].cams])
  <2>1. tab \in [Tabs -> Page]
    OBVIOUS
  <2>2. CASE tab' = [tab EXCEPT ![b] = Closed]
    BY <2>1, <2>2 DEF Closed
  <2>3. CASE /\ tab[b].at = "closed" /\ Alone
             /\ tab' = [tab EXCEPT ![b] = [Closed EXCEPT !.at = "asking", !.cfg = storage,
                                                         !.cams = cfgs[storage].cams]]
    BY <2>1, <2>3 DEF Closed
  <2>4. CASE \/ tab' = [tab EXCEPT ![b] = [Closed EXCEPT !.at = "open", !.cfg = storage,
                                                         !.cams = cfgs[storage].cams]]
             \/ tab' = [tab EXCEPT ![b] = [Closed EXCEPT !.at = "resolving", !.cfg = storage]]
    <3> HIDE DEF ConfigInv, ConfigTypeOK, Page
    <3>1. tab'[b].at \in {"open", "resolving"}
      BY <2>1, <2>4 DEF Closed
    <3> QED
      BY <3>1
  <2>5. CASE tab' = [tab EXCEPT ![b].at = "open", ![b].cams = cfgs[tab[b].cfg].cams]
    <3> HIDE DEF Page, ConfigInv, ConfigTypeOK
    <3>1. tab'[b].at = "open"
      BY <1>1, <2>1, <2>5 DEF Page
    <3> QED
      BY <3>1
  <2>6. CASE /\ tab[b].at = "asking"
             /\ tab' = [tab EXCEPT ![b].at = "copied", ![b].fresh = Fresh(cams[tab[b].cams])]
    <3> HIDE DEF ConfigInv, ConfigTypeOK
    <3>1. /\ tab'[b].at = "copied" /\ tab'[b].cfg = tab[b].cfg
          /\ tab'[b].fresh = Fresh(cams[tab[b].cams])
      BY <1>1, <2>1, <2>6
    <3> QED
      BY <2>6, <3>1
  <2> QED
    BY <1>5, <2>2, <2>3, <2>4, <2>5, <2>6
<1>10. careful => OneDashboard'
  BY <1>6, <1>9 DEF CarefulInv, OneDashboard, Alone
<1>11. careful => AsksForTheLoaded'
  BY <1>6, <1>9 DEF CarefulInv, AsksForTheLoaded
<1>12. ASSUME careful, NEW c \in Tabs, tab'[c].at = "copied", tab'[c].cfg = storage, NEW i \in Ids
       PROVE  LocalOf(tab'[c].fresh, i) \in asked[i]
  <2>1. CASE c # b
    BY <1>6, <1>12, <2>1 DEF CarefulInv, CopiesAreKept
  <2>2. CASE c = b
    <3>1. /\ tab[b].at = "asking" /\ tab[b].cfg = storage
          /\ tab'[b].fresh = Fresh(cams[tab[b].cams])
      BY <1>9, <1>12, <2>2
    <3>2. tab[b].cams = cfgs[storage].cams
      BY <1>12, <3>1 DEF CarefulInv, AsksForTheLoaded
    <3>3. Distinct /\ LocalOf(cams[cfgs[storage].cams], i) \in asked[i]
      BY <1>12 DEF CarefulInv, Kept
    <3> QED
      BY <1>3, <2>2, <3>1, <3>2, <3>3
  <2> QED
    BY <2>1, <2>2
<1>13. careful => CopiesAreKept'
  BY <1>12 DEF CopiesAreKept
<1> QED
  BY <1>7, <1>8, <1>10, <1>11, <1>13 DEF CarefulInv, Distinct

\* A dashboard that is done: no other of a careful user is on its way.
LEMMA ReplacedKeeps ==
  ASSUME ConfigInv, NEW b \in Tabs, CamerasReplaced(b)
  PROVE  ConfigInv'
<1> DEFINE new == Len(cams) + 1
           Page(D, C) == [at : {"closed", "open", "resolving", "asking", "copied"},
                          cfg : D, cams : C, fresh : Entries]
           Config(C) == [token : Nat, cams : C]
<1>1. /\ tab[b].at = "copied"
      /\ cams' = Append(cams, tab[b].fresh)
      /\ cfgs' = [cfgs EXCEPT ![tab[b].cfg].cams = new]
      /\ tab' = [tab EXCEPT ![b] = Closed]
      /\ UNCHANGED <<careful, title, file, storage, asked>>
  BY DEF CamerasReplaced
<1>2. /\ tab \in [Tabs -> Page(DOMAIN cfgs, DOMAIN cams)]
      /\ tab[b].cfg \in DOMAIN cfgs /\ tab[b].fresh \in Entries
      /\ storage \in DOMAIN cfgs
      /\ cams \in Seq(Entries) /\ cfgs \in Seq(Config(DOMAIN cams))
  BY DEF ConfigInv, ConfigTypeOK
<1>3. /\ cams' \in Seq(Entries)
      /\ DOMAIN cams' = DOMAIN cams \cup {new}
      /\ \A n \in DOMAIN cams : cams'[n] = cams[n]
      /\ cams'[new] = tab[b].fresh
  BY <1>1, <1>2, CamsAppended
<1>4. /\ cfgs' \in Seq(Config(DOMAIN cams'))
      /\ DOMAIN cfgs' = DOMAIN cfgs
      /\ cfgs'[tab[b].cfg].cams = new
      /\ \A n \in DOMAIN cfgs \ {tab[b].cfg} : cfgs'[n] = cfgs[n]
  <2>1. \A n \in DOMAIN cfgs : cfgs[n] \in Config(DOMAIN cams)
    BY References DEF ConfigInv
  <2>2. \A n \in DOMAIN cfgs : [cfgs[n] EXCEPT !.cams = new] \in Config(DOMAIN cams')
    BY <1>3, <2>1
  <2>3. Config(DOMAIN cams) \subseteq Config(DOMAIN cams')
    BY <1>3
  <2>4. /\ [cfgs[tab[b].cfg] EXCEPT !.cams = new].cams = new
    BY <1>2, <2>1
  <2> HIDE DEF Config
  <2>5. cfgs' = [cfgs EXCEPT ![tab[b].cfg] = [cfgs[tab[b].cfg] EXCEPT !.cams = new]]
    BY <1>1
  <2>6. cfgs \in Seq(Config(DOMAIN cams'))
    BY <1>2, <2>3, SeqWidens
  <2> HIDE <1>1
  <2>7. cfgs' \in Seq(Config(DOMAIN cams'))
    BY <1>2, <2>2, <2>5, <2>6
  <2> QED
    BY <1>2, <2>4, <2>5, <2>7
<1>5. tab' \in [Tabs -> Page(DOMAIN cfgs', DOMAIN cams')]
  <2>1. Closed.fresh \in [{} -> [name : Names, local : Locals]]
    BY DEF Closed
  <2>2. Closed.fresh \in Entries
    BY <2>1, EntriesTogether
  <2>3. 1 \in DOMAIN cfgs' /\ 1 \in DOMAIN cams'
    <3>1. 1 \in DOMAIN cfgs
      BY <1>2
    <3>2. 1 \in DOMAIN cams'
      BY <1>2, <1>3
    <3> QED
      BY <1>4, <3>1, <3>2
  <2>4. Closed \in Page(DOMAIN cfgs', DOMAIN cams')
    BY <2>2, <2>3 DEF Closed
  <2>5. Page(DOMAIN cfgs, DOMAIN cams) \subseteq Page(DOMAIN cfgs', DOMAIN cams')
    BY <1>3, <1>4
  <2> HIDE DEF Page
  <2> QED
    BY <1>1, <1>2, <2>4, <2>5
<1>6. ConfigTypeOK'
  BY <1>1, <1>3, <1>4, <1>5, Zenon DEF ConfigInv, ConfigTypeOK
<1>7. \A c \in Tabs : \/ tab'[c].at = "closed"
                      \/ c # b /\ tab'[c] = tab[c]
  BY <1>1, <1>2 DEF Closed
<1>8. ASSUME careful', NEW i \in Ids
      PROVE  Kept(i)'
  <2>1. Kept(i) /\ CopiesAreKept
    BY <1>1, <1>8 DEF ConfigInv, CarefulInv
  <2>2. CASE tab[b].cfg = storage
    <3>1. LocalOf(tab[b].fresh, i) \in asked[i]
      BY <1>1, <2>1, <2>2 DEF CopiesAreKept
    <3>2. cams'[cfgs'[storage'].cams] = tab[b].fresh
      BY <1>1, <1>3, <1>4, <2>2
    <3>3. UNCHANGED <<file, asked>>
      BY <1>1
    <3> QED
      BY <2>1, <3>1, <3>2, <3>3 DEF Kept
  <2>3. CASE tab[b].cfg # storage
    <3>1. cfgs[storage].cams \in DOMAIN cams
      BY <1>2, References DEF ConfigInv
    <3>2. cams'[cfgs'[storage'].cams] = cams[cfgs[storage].cams]
      BY <1>1, <1>2, <1>3, <1>4, <2>3, <3>1
    <3>3. UNCHANGED <<file, asked>>
      BY <1>1
    <3> QED
      BY <2>1, <3>2, <3>3 DEF Kept
  <2> QED
    BY <2>2, <2>3
<1>9. ASSUME careful'
      PROVE  OneDashboard' /\ AsksForTheLoaded' /\ CopiesAreKept'
  <2>1. careful /\ UNCHANGED <<storage, asked>>
    BY <1>1, <1>9
  <2>2. OneDashboard /\ CopiesAreKept
    BY <2>1 DEF ConfigInv, CarefulInv
  <2>3. \A c \in Tabs : tab'[c].at \notin {"asking", "copied"}
    BY <1>1, <1>7, <2>2 DEF OneDashboard
  <2> QED
    BY <2>3 DEF OneDashboard, AsksForTheLoaded, CopiesAreKept
<1> QED
  BY <1>1, <1>6, <1>8, <1>9 DEF ConfigInv, CarefulInv, Distinct

\* What is written is of the file's type.
LEMMA WrittenType ==
  ASSUME ConfigTypeOK, NEW c \in DOMAIN cfgs, cams' \in Seq(Entries), DOMAIN cams' = DOMAIN cams
  PROVE  /\ Written(c) \in [token : Nat, cams : Entries]
         /\ Written(c).cams = cams'[cfgs[c].cams]
         /\ Written(c).token = cfgs[c].token
<1>1. cfgs[c] \in [token : Nat, cams : DOMAIN cams]
  BY References
<1>2. \A n \in DOMAIN cams' : cams'[n] \in Entries
  OBVIOUS
<1> QED
  BY <1>1, <1>2 DEF Written

\* What saving leaves alone, and what is left to show.
LEMMA SaveFrame ==
  ASSUME ConfigInv, UNCHANGED <<careful, title, cfgs, storage, tab>>,
         cams' \in Seq(Entries), DOMAIN cams' = DOMAIN cams,
         file' \in [token : Nat, cams : Entries], asked' \in [Ids -> SUBSET Locals],
         careful => /\ \A i \in Ids : Kept(i)'
                    /\ UNCHANGED asked \/ \A c \in Tabs : tab[c].at # "copied"
  PROVE  ConfigInv'
<1>1. ConfigTypeOK'
  BY DEF ConfigInv, ConfigTypeOK
<1>2. ASSUME careful
      PROVE  OneDashboard' /\ AsksForTheLoaded'
  <2>1. OneDashboard /\ AsksForTheLoaded
    BY <1>2 DEF ConfigInv, CarefulInv
  <2> QED
    BY <2>1 DEF OneDashboard, AsksForTheLoaded
<1>3. ASSUME careful
      PROVE  CopiesAreKept'
  <2>1. CopiesAreKept
    BY <1>3 DEF ConfigInv, CarefulInv
  <2> QED
    BY <1>3, <2>1 DEF CopiesAreKept
<1> QED
  BY <1>1, <1>2, <1>3 DEF ConfigInv, CarefulInv, Distinct

\* Saving the language keeps the invariant.
LEMMA SaveLanguageKeeps ==
  ASSUME ConfigInv, NEW b \in Tabs, SaveLanguage(b)
  PROVE  ConfigInv'
<1>1. /\ tab[b].cfg \in DOMAIN cfgs
      /\ cams \in Seq(Entries)
      /\ asked \in [Ids -> SUBSET Locals]
      /\ ConfigTypeOK
  BY DEF ConfigInv, ConfigTypeOK
<1>2. /\ file' = Written(tab[b].cfg)
      /\ UNCHANGED <<careful, title, cfgs, cams, storage, tab, asked>>
  BY DEF SaveLanguage
<1>3. /\ file' \in [token : Nat, cams : Entries]
      /\ file'.cams = cams[cfgs[tab[b].cfg].cams]
  BY <1>1, <1>2, WrittenType
<1>4. ASSUME careful, NEW i \in Ids
      PROVE  Kept(i)'
  <2>1. Kept(i)
    BY <1>4 DEF ConfigInv, CarefulInv
  <2>2. tab[b].cfg = storage
    BY <1>4 DEF SaveLanguage, Careful
  <2> QED
    BY <1>2, <1>3, <2>1, <2>2 DEF Kept
<1> QED
  BY <1>1, <1>2, <1>3, <1>4, SaveFrame

\* Saving a local field keeps the invariant.
LEMMA SaveLocalKeeps ==
  ASSUME ConfigInv, NEW b \in Tabs, NEW i \in Ids, NEW v \in Locals, SaveLocal(b, i, v)
  PROVE  ConfigInv'
<1> DEFINE m == tab[b].cams
<1>1. /\ tab[b].cfg \in DOMAIN cfgs /\ m \in DOMAIN cams
      /\ cams \in Seq(Entries)
      /\ asked \in [Ids -> SUBSET Locals]
      /\ file \in [token : Nat, cams : Entries]
      /\ ConfigTypeOK
  BY DEF ConfigInv, ConfigTypeOK
<1>2. /\ i \in DOMAIN cams[m]
      /\ cams' = [cams EXCEPT ![m] = [cams[m] EXCEPT ![i].local = v]]
      /\ UNCHANGED <<careful, title, cfgs, storage, tab>>
      /\ \/ file' = Written(tab[b].cfg) /\ asked' = [asked EXCEPT ![i] = {v}]
         \/ asked' = [asked EXCEPT ![i] = @ \cup {v}] /\ UNCHANGED file
  BY DEF SaveLocal
<1> DEFINE w == [cams[m] EXCEPT ![i].local = v]
<1>3. cams[m] \in Entries
  BY <1>1, References
<1>4. /\ w \in Entries
      /\ LocalOf(w, i) = v
      /\ \A j \in Ids \ {i} : LocalOf(w, j) = LocalOf(cams[m], j)
  BY <1>2, <1>3, WrittenField
<1> HIDE DEF m, w
<1>5. cams' \in Seq(Entries) /\ DOMAIN cams' = DOMAIN cams /\ cams'[m] = w
  BY <1>1, <1>2, <1>4 DEF w
<1>6. /\ Written(tab[b].cfg) \in [token : Nat, cams : Entries]
      /\ Written(tab[b].cfg).cams = cams'[cfgs[tab[b].cfg].cams]
  BY <1>1, <1>5, WrittenType
<1>7. file' \in [token : Nat, cams : Entries]
  BY <1>1, <1>2, <1>6
<1>8. asked' \in [Ids -> SUBSET Locals]
  BY <1>1, <1>2
<1>9. ASSUME careful, NEW j \in Ids
      PROVE  Kept(j)'
  <2>1. Kept(j)
    BY <1>9 DEF ConfigInv, CarefulInv
  <2>2. tab[b].cfg = storage /\ m = cfgs[storage].cams
    BY <1>9 DEF SaveLocal, Careful, m
  <2>3. LocalOf(w, j) \in asked'[j]
    <3>1. CASE j = i
      BY <1>1, <1>2, <1>4, <3>1
    <3>2. CASE j # i
      <4>1. asked'[j] = asked[j] /\ LocalOf(w, j) = LocalOf(cams[m], j)
        BY <1>1, <1>2, <1>4, <3>2
      <4>2. LocalOf(cams[m], j) \in asked[j]
        BY <2>1, <2>2 DEF Kept
      <4> QED
        BY <4>1, <4>2
    <3> QED
      BY <3>1, <3>2
  <2>4. LocalOf(file'.cams, j) \in asked'[j]
    <3>1. CASE file' = Written(tab[b].cfg)
      <4>1. file'.cams = w
        BY <1>5, <1>6, <2>2, <3>1
      <4> QED
        BY <2>3, <4>1
    <3>2. CASE asked' = [asked EXCEPT ![i] = @ \cup {v}] /\ UNCHANGED file
      <4>1. asked[j] \subseteq asked'[j]
        BY <1>1, <3>2
      <4>2. LocalOf(file.cams, j) \in asked[j]
        BY <2>1 DEF Kept
      <4> QED
        BY <3>2, <4>1, <4>2
    <3> QED
      BY <1>2, <3>1, <3>2
  <2>5. cams'[cfgs'[storage'].cams] = w
    BY <1>2, <1>5, <2>2
  <2> QED
    BY <2>3, <2>4, <2>5 DEF Kept
<1>10. careful => \A c \in Tabs : tab[c].at # "copied"
  BY DEF SaveLocal, Careful
<1> QED
  BY <1>2, <1>5, <1>7, <1>8, <1>9, <1>10, SaveFrame

\* Renaming a camera and fetching a token reach neither the pages nor the local fields.
LEMMA OutsideKeeps ==
  ASSUME ConfigInv, \/ TokenFix
                    \/ \E i \in Ids : Rename(i)
                    \/ UNCHANGED configVars
  PROVE  ConfigInv'
<1> USE DEF ConfigInv, CarefulInv, OneDashboard, AsksForTheLoaded, CopiesAreKept, Kept
<1>1. CASE TokenFix
  <2>1. /\ UNCHANGED <<careful, title, cfgs, cams, storage, tab, asked>>
        /\ file' = [file EXCEPT !.token = @ + 1]
    BY <1>1 DEF TokenFix
  <2>2. file \in [token : Nat, cams : Entries]
    BY DEF ConfigTypeOK
  <2>3. file' \in [token : Nat, cams : Entries] /\ file'.cams = file.cams
    BY <2>1, <2>2
  <2>4. ConfigTypeOK'
    BY <2>1, <2>3 DEF ConfigTypeOK
  <2> QED
    BY <2>1, <2>3, <2>4 DEF Distinct
<1>2. CASE \E i \in Ids : Rename(i)
  <2>1. UNCHANGED <<careful, file, cfgs, cams, storage, tab, asked>>
    BY <1>2 DEF Rename
  <2>2. title' \in [Ids -> Names]
    BY <1>2 DEF Rename, ConfigTypeOK
  <2>3. ConfigTypeOK'
    BY <2>1, <2>2 DEF ConfigTypeOK
  <2>4. careful => Distinct'
    BY <1>2 DEF Rename
  <2> QED
    BY <2>1, <2>3, <2>4
<1>3. CASE UNCHANGED configVars
  <2>1. ConfigTypeOK'
    BY <1>3 DEF configVars, ConfigTypeOK
  <2> QED
    BY <1>3, <2>1 DEF configVars, Distinct
<1> QED
  BY <1>1, <1>2, <1>3

\* Every step keeps the invariant.
LEMMA NextInv == ConfigInv /\ [ConfigNext]_configVars => ConfigInv'
<1> SUFFICES ASSUME ConfigInv, [ConfigNext]_configVars
             PROVE  ConfigInv'
  OBVIOUS
<1>1. CASE TokenFix \/ (\E i \in Ids : Rename(i)) \/ UNCHANGED configVars
  BY <1>1, OutsideKeeps
<1>2. CASE Reload
  BY <1>2, LoadedKeeps DEF Reload
<1>3. CASE Restart
  BY <1>3, LoadedKeeps DEF Restart
<1>4. ASSUME NEW b \in Tabs,
             \/ Close(b) \/ OpenSettings(b) \/ OpenCamera(b) \/ Resolved(b)
             \/ AskCameras(b) \/ CamerasListed(b) \/ CamerasCached(b)
      PROVE  ConfigInv'
  <2>1. UNCHANGED <<careful, title, file, cfgs, cams, storage, asked>>
    BY <1>4 DEF Close, OpenSettings, OpenCamera, Resolved, AskCameras, CamerasListed, CamerasCached
  <2> QED
    BY <1>4, <2>1, PagesKeep
<1>5. ASSUME NEW b \in Tabs, CamerasReplaced(b)
      PROVE  ConfigInv'
  BY <1>5, ReplacedKeeps
<1>6. ASSUME NEW b \in Tabs, SaveLanguage(b)
      PROVE  ConfigInv'
  BY <1>6, SaveLanguageKeeps
<1>7. ASSUME NEW b \in Tabs, NEW i \in Ids, NEW v \in Locals, SaveLocal(b, i, v)
      PROVE  ConfigInv'
  BY <1>7, SaveLocalKeeps
<1> QED
  BY <1>1, <1>2, <1>3, <1>4, <1>5, <1>6, <1>7 DEF ConfigNext

-----------------------------------------------------------------------------
(* The theorems *)

\* The invariant holds in every state that is reached.
THEOREM ConfigInvariance == ConfigSpec => []ConfigInv
<1>1. ConfigInit => ConfigInv
  BY InitInv
<1>2. ConfigInv /\ [ConfigNext]_configVars => ConfigInv'
  BY NextInv
<1> QED
  BY <1>1, <1>2, PTL DEF ConfigSpec

\* Every variable has its type, and no page holds an object that does not exist.
THEOREM ConfigTypeCorrectness == ConfigSpec => []ConfigTypeOK
<1>1. ConfigInv => ConfigTypeOK
  BY DEF ConfigInv
<1> QED
  BY <1>1, ConfigInvariance, PTL

\* What a careful user has saved is found again, in the file and by the next page, whatever is
\* renamed, refreshed, failed, reloaded or restarted in between (get_cameras, save_config).
THEOREM Saved == ConfigSpec => []SavedIsKept
<1>1. ConfigInv => SavedIsKept
  BY DEF ConfigInv, CarefulInv, SavedIsKept
<1> QED
  BY <1>1, ConfigInvariance, PTL
=============================================================================
