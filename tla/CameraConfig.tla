---------------------------- MODULE CameraConfig ----------------------------
(***************************************************************************)
(* The configuration: bosch_config.json, the dictionary that app.py keeps  *)
(* in NiceGUI's storage, and the pages that hold on to what they found     *)
(* there when they were opened (cli_bridge.py 94-189, settings.py,         *)
(* camera_detail.py).                                                      *)
(*                                                                         *)
(* Dictionaries are shared by reference.  A reload replaces the whole      *)
(* configuration by a new object; a dashboard replaces the cameras in it   *)
(* by new dictionaries, with the local fields copied from the old ones.    *)
(* A page goes on writing to the objects it has and saves the              *)
(* configuration it has, as a whole.                                       *)
(*                                                                         *)
(* Data: the fields of a camera that only this program knows               *)
(* (local_data_password, nvr_recording_*, ...) are one field, "local".     *)
(* The file and its dictionaries are keyed by title, so of two cameras     *)
(* with one title only one is there (Listed).                              *)
(***************************************************************************)
EXTENDS Naturals, Sequences

CONSTANTS Ids,        \* the account's cameras
          Names,      \* titles they may have
          Locals,     \* what a local field may hold
          NoLocal,    \* the default of a camera that is new
          Tabs,       \* browser tabs
          MaxTokens,  \* a bound on how often a token is fetched
          MaxObjects  \* a bound on how often the configuration or its cameras are replaced

ASSUME ConfigAssumption == MaxTokens \in Nat /\ MaxObjects \in Nat /\ NoLocal \in Locals

VARIABLES careful,  \* a user who keeps to what Careful and Alone say
          title,    \* title[i]: the cloud's name of camera i
          file,     \* bosch_config.json
          cfgs,     \* every configuration object: its token and its cameras
          cams,     \* every mapping of camera dictionaries
          storage,  \* storage.general["cfg"]: an index of cfgs
          tab,      \* tab[b]: the page it shows and the objects that page holds
          asked     \* asked[i]: the local fields of i that the user may find, given what he was told

configVars == <<careful, title, file, cfgs, cams, storage, tab, asked>>

Entries == UNION {[I -> [name : Names, local : Locals]] : I \in SUBSET Ids}

\* The entry of a camera is found by its id; a camera that is not there has the defaults.
LocalOf(entries, i) == IF i \in DOMAIN entries THEN entries[i].local ELSE NoLocal

\* The cloud does not keep two cameras from having one title.
Distinct == \A i, j \in Ids : i # j => title[i] # title[j]

\* Of the cameras with one title a dictionary keeps one, the last of the cloud's list; which one
\* that is does not change.
Listed == {i \in Ids : i = CHOOSE j \in Ids : title[j] = title[i]}

Closed == [at |-> "closed", cfg |-> 1, cams |-> 1, fresh |-> [i \in {} |-> i]]

ConfigInit ==
    /\ careful \in BOOLEAN
    /\ title \in [Ids -> Names]
    /\ careful => Distinct
    /\ \E known \in SUBSET Listed :
          file = [token |-> 0,
                  cams |-> [i \in known |-> [name |-> title[i], local |-> NoLocal]]]
    /\ cams = <<file.cams>>
    /\ cfgs = <<[token |-> file.token, cams |-> 1]>>
    /\ storage = 1
    /\ tab = [b \in Tabs |-> Closed]
    /\ asked = [i \in Ids |-> {NoLocal}]

-----------------------------------------------------------------------------
(* The world outside: the vendor's app renames a camera, "bosch_camera.py   *)
(* token fix" writes a new token into the file.                             *)

\* A careful user gives each of his cameras a title of its own.
Rename(i) == /\ \E n \in Names : title' = [title EXCEPT ![i] = n]
             /\ careful => Distinct'
             /\ UNCHANGED <<careful, file, cfgs, cams, storage, tab, asked>>

TokenFix == /\ file.token < MaxTokens
            /\ file' = [file EXCEPT !.token = @ + 1]
            /\ UNCHANGED <<careful, title, cfgs, cams, storage, tab, asked>>

-----------------------------------------------------------------------------
(* load_config and save_config, of which the CLI's own functions do the     *)
(* work.                                                                    *)

Loaded == /\ Len(cams) < MaxObjects
          /\ cams' = Append(cams, file.cams)
          /\ cfgs' = Append(cfgs, [token |-> file.token, cams |-> Len(cams) + 1])
          /\ storage' = Len(cfgs) + 1

\* The settings page's button re-reads the file for every page that is opened from now on.
Reload == Loaded /\ UNCHANGED <<careful, title, file, tab, asked>>

\* The program is started again, and with it every tab.
Restart == /\ Loaded
           /\ tab' = [b \in Tabs |-> Closed]
           /\ UNCHANGED <<careful, title, file, asked>>

\* What is written is the page's configuration as it is now.
Written(c) == [token |-> cfgs[c].token, cams |-> cams'[cfgs[c].cams]]

-----------------------------------------------------------------------------
(* Pages *)

\* A careful user's page is no older than the last reload and the last dashboard, and no dashboard
\* is between copying the local fields and putting the copies in place.
Careful(b) == careful => /\ tab[b].cfg = storage
                         /\ tab[b].cams = cfgs[storage].cams
                         /\ \A c \in Tabs : tab[c].at # "copied"

\* A careful user opens one dashboard at a time.
Alone == careful => \A c \in Tabs : tab[c].at \notin {"asking", "copied"}

Close(b) == /\ tab[b].at = "open"
            /\ tab' = [tab EXCEPT ![b] = Closed]
            /\ UNCHANGED <<careful, title, file, cfgs, cams, storage, asked>>

\* The settings page takes the cameras from the storage, in one go.
OpenSettings(b) ==
    /\ tab[b].at = "closed"
    /\ tab' = [tab EXCEPT ![b] = [Closed EXCEPT !.at = "open", !.cfg = storage,
                                                !.cams = cfgs[storage].cams]]
    /\ UNCHANGED <<careful, title, file, cfgs, cams, storage, asked>>

\* A camera page takes its configuration, and then awaits resolve_cam.
OpenCamera(b) ==
    /\ tab[b].at = "closed"
    /\ tab' = [tab EXCEPT ![b] = [Closed EXCEPT !.at = "resolving", !.cfg = storage]]
    /\ UNCHANGED <<careful, title, file, cfgs, cams, storage, asked>>

Resolved(b) ==
    /\ tab[b].at = "resolving"
    /\ tab' = [tab EXCEPT ![b].at = "open", ![b].cams = cfgs[tab[b].cfg].cams]
    /\ UNCHANGED <<careful, title, file, cfgs, cams, storage, asked>>

-----------------------------------------------------------------------------
(* The dashboard: get_cameras, in a worker thread *)

AskCameras(b) ==
    /\ tab[b].at = "closed" /\ Alone
    /\ tab' = [tab EXCEPT ![b] = [Closed EXCEPT !.at = "asking", !.cfg = storage,
                                                !.cams = cfgs[storage].cams]]
    /\ UNCHANGED <<careful, title, file, cfgs, cams, storage, asked>>

\* Slip: what was known of a camera is looked up by its title.
FreshByName(known) ==
    [i \in Listed |->
                   [name |-> title[i],
                    local |-> IF \E j \in DOMAIN known : known[j].name = title[i]
                              THEN known[CHOOSE j \in DOMAIN known : known[j].name = title[i]].local
                              ELSE NoLocal]]

\* Slip: the old dictionary of a camera becomes a field of the new one.
FreshNested(known) ==
    [i \in Listed |->
        [name |-> title[i], local |-> IF i \in DOMAIN known THEN known[i] ELSE NoLocal]]

\* The cloud's list, with the local fields of what was cached before the request.
Fresh(known) == [i \in Listed |-> [name |-> title[i], local |-> LocalOf(known, i)]]

CamerasListed(b) ==
    /\ tab[b].at = "asking"
    /\ tab' = [tab EXCEPT ![b].at = "copied", ![b].fresh = Fresh(cams[tab[b].cams])]
    /\ UNCHANGED <<careful, title, file, cfgs, cams, storage, asked>>

\* An HTTP error or an exception: the cached dictionaries stay as they are.
CamerasCached(b) ==
    /\ tab[b].at = "asking"
    /\ tab' = [tab EXCEPT ![b] = Closed]
    /\ UNCHANGED <<careful, title, file, cfgs, cams, storage, asked>>

CamerasReplaced(b) ==
    /\ tab[b].at = "copied" /\ Len(cams) < MaxObjects
    /\ cams' = Append(cams, tab[b].fresh)
    /\ cfgs' = [cfgs EXCEPT ![tab[b].cfg].cams = Len(cams) + 1]
    /\ tab' = [tab EXCEPT ![b] = Closed]
    /\ UNCHANGED <<careful, title, file, storage, asked>>

-----------------------------------------------------------------------------
(* Saving *)

\* The password of the settings page, the recording switch and folder of a camera page: the
\* dictionary the page holds, then the file.  A failed save leaves the dictionary changed.
SaveLocal(b, i, v) ==
    /\ tab[b].at = "open" /\ Careful(b) /\ i \in DOMAIN cams[tab[b].cams]
    /\ cams' = [cams EXCEPT ![tab[b].cams][i].local = v]
    /\ UNCHANGED cfgs
    /\ \/ file' = Written(tab[b].cfg) /\ asked' = [asked EXCEPT ![i] = {v}]
       \/ asked' = [asked EXCEPT ![i] = @ \cup {v}] /\ UNCHANGED file
    /\ UNCHANGED <<careful, title, storage, tab>>

\* The language of the settings page is a field that nothing else here looks at: what counts is
\* that the page's configuration is written as a whole.
SaveLanguage(b) ==
    /\ tab[b].at = "open" /\ Careful(b)
    /\ UNCHANGED cams
    /\ file' = Written(tab[b].cfg)
    /\ UNCHANGED <<careful, title, cfgs, storage, tab, asked>>

ConfigNext ==
    \/ TokenFix \/ Reload \/ Restart
    \/ \E i \in Ids : Rename(i)
    \/ \E b \in Tabs : \/ Close(b) \/ OpenSettings(b) \/ OpenCamera(b) \/ Resolved(b)
                       \/ AskCameras(b) \/ CamerasListed(b) \/ CamerasCached(b)
                       \/ CamerasReplaced(b) \/ SaveLanguage(b)
                       \/ \E i \in Ids, v \in Locals : SaveLocal(b, i, v)

ConfigSpec == ConfigInit /\ [][ConfigNext]_configVars

-----------------------------------------------------------------------------
(* Properties *)

\* Every variable has its type, and every reference leads somewhere.
ConfigTypeOK ==
    /\ careful \in BOOLEAN
    /\ title \in [Ids -> Names]
    /\ file \in [token : Nat, cams : Entries]
    /\ cams \in Seq(Entries)
    /\ cfgs \in Seq([token : Nat, cams : DOMAIN cams])
    /\ storage \in DOMAIN cfgs
    /\ tab \in [Tabs -> [at : {"closed", "open", "resolving", "asking", "copied"},
                         cfg : DOMAIN cfgs, cams : DOMAIN cams, fresh : Entries]]
    /\ asked \in [Ids -> SUBSET Locals]

Kept(i) == /\ LocalOf(file.cams, i) \in asked[i]
           /\ LocalOf(cams[cfgs[storage].cams], i) \in asked[i]

\* What the user was told has been saved is in the file and in the cameras the next page will
\* find, through renames, refreshes that overlap a save, failed requests and saves, reloads and
\* restarts, for a user who keeps his pages fresh and his titles apart.
SavedIsKept == careful => \A i \in Ids : Kept(i)

\* The same for every user, as long as nothing is reloaded: get_cameras says that the local
\* fields are preserved across a refresh, keyed by camera id.
LocalFieldsArePreserved == Len(cfgs) = 1 => \A i \in Ids : LocalOf(file.cams, i) \in asked[i]

=============================================================================
