----------------------------- MODULE LocalData -----------------------------
(***************************************************************************)
(* The local data interface of one camera: adapters/                       *)
(* local_data_interface.py, and where pages/camera_detail.py chooses by it *)
(* between the camera itself and the vendor's cloud.  The status of the    *)
(* interface is asked of the cloud once for every view of the page and     *)
(* kept in one cache for all views.  Password and address come from the    *)
(* entry of the configuration that the page got when it opened: later      *)
(* changes reach it only as long as both are the same object.              *)
(*                                                                         *)
(* Data: an address is one valid_lan_ip takes or one it does not; a        *)
(* password has the format of the sticker or not.                          *)
(***************************************************************************)
EXTENDS Naturals, Sequences

CONSTANTS Views,       \* views of the camera's page, and its recorder
          Versions,    \* firmware versions: sequences of numbers, or << >> where parsing fails
          MinFirmware  \* LDI_MIN_FIRMWARE

ASSUME LocalAssumption ==
    /\ MinFirmware \in Seq(Nat) /\ Versions \subseteq Seq(Nat)

VARIABLES iface,      \* what the camera's interface is, as the cloud would say
          gen2,       \* the camera's model is in GEN2_MODELS
          firmware,   \* its firmware version
          lan,        \* valid_lan_ip takes the stored address
          password,   \* the stored password, as a page that opens now gets it
          cache,      \* _status_cache: a state, or "unknown"
          view,       \* view[w]: where it is, the password of its entry, the answer it waits
                      \* for, local_only, its source
          current,    \* the views whose request the cloud has answered since iface changed last
          learned     \* the last answer that said anything was of such a request

localVars == <<iface, gen2, firmware, lan, password, cache, view, current, learned>>

States == {"active", "inactive", "unsupported"}
Passwords == {"none", "good"}    \* "none": or not of the format of the sticker

\* A view that waits for a stream of the cloud: for its start, or for a refresh.
Opening == {"opening", "reopening"}

\* Slip: every part of the version has to reach its part of the minimum.
EachAtLeast(v, min) == Len(v) >= Len(min) /\ \A j \in 1..Len(min) : v[j] >= min[j]

\* How Python compares tuples of numbers: the first difference decides, then the length.
AtLeast(v, min) ==
    \/ \E k \in 1..Len(min) : /\ k <= Len(v) /\ v[k] > min[k]
                              /\ \A j \in 1..(k - 1) : v[j] = min[j]
    \/ Len(v) >= Len(min) /\ \A j \in 1..Len(min) : v[j] = min[j]

\* firmware_supports_ldi: a version that does not parse does not qualify.
FirmwareSupports(v) == v # << >> /\ AtLeast(v, MinFirmware)

ShouldQuery == gen2 /\ FirmwareSupports(firmware)

Wanted(w) == cache = "active" /\ view[w].password = "good"

NewView == [at |-> "closed", password |-> "none", answer |-> "none", localOnly |-> FALSE,
            source |-> "none"]

LocalInit ==
    /\ iface \in States
    /\ gen2 \in BOOLEAN
    /\ firmware \in Versions
    /\ lan \in BOOLEAN
    /\ password \in Passwords
    /\ cache = "unknown"
    /\ view = [w \in Views |-> NewView]
    /\ current = {} /\ learned = FALSE

-----------------------------------------------------------------------------
(* The world outside *)

\* The owner turns the interface on or off in the vendor's app.
Switch == /\ iface' \in States \ {iface}
          /\ current' = {} /\ learned' = FALSE
          /\ UNCHANGED <<gen2, firmware, lan, password, cache, view>>

\* Newer as people number versions: part by part, a missing part counting as nothing.
Part(v, k) == IF k <= Len(v) THEN v[k] ELSE 0
Newer(v, w) == \E k \in 1..Len(v) : /\ Part(v, k) > Part(w, k)
                                    /\ \A j \in 1..(k - 1) : Part(v, j) = Part(w, j)

\* The camera is updated, and the next get_cameras says so.
Update == /\ \E v \in Versions : Newer(v, firmware) /\ firmware' = v
          /\ UNCHANGED <<iface, gen2, lan, password, cache, view, current, learned>>

\* The settings page of Gen2 cameras takes a password with the right format, or none.  It writes
\* to the entry it was built with: pages that have the same entry see it at once, others do not,
\* and it may be an entry that no page gets any more.
Save == /\ gen2
        /\ \E p \in Passwords, S \in SUBSET {w \in Views : view[w].at # "closed"} :
             /\ password' \in {p, password}
             /\ view' = [w \in Views |-> [view[w] EXCEPT !.password = IF w \in S THEN p ELSE @]]
        /\ UNCHANGED <<iface, gen2, firmware, lan, cache, current, learned>>

-----------------------------------------------------------------------------
(* fetch_status, in a worker thread, once for every view *)

\* A view that is set up again while its first request is under way does not ask a second time.
Open(w) == /\ view[w].at = "closed"
           /\ \E at \in {"asking", "setup"} :
                /\ at = "asking" => ShouldQuery
                /\ view' = [view EXCEPT ![w].at = at, ![w].password = password]
           /\ UNCHANGED <<iface, gen2, firmware, lan, password, cache, current, learned>>

\* 200 with a user name, 404, 449; or anything else: another status, a body of another form, no
\* answer
Answered(w) ==
    /\ view[w].at = "asking"
    /\ \E a \in {iface, "unclear"} : view' = [view EXCEPT ![w].at = "answered", ![w].answer = a]
    /\ current' = current \cup {w}
    /\ UNCHANGED <<iface, gen2, firmware, lan, password, cache, learned>>

\* Slip: what is unclear counts as off.
TakenAsOff(w) ==
    /\ view[w].at = "answered"
    /\ view' = [view EXCEPT ![w].at = "setup", ![w].answer = "none"]
    /\ cache' = IF view[w].answer = "unclear" THEN "inactive" ELSE view[w].answer
    /\ learned' = IF view[w].answer = "unclear" THEN learned ELSE w \in current
    /\ UNCHANGED <<iface, gen2, firmware, lan, password, current>>

\* What is unclear leaves the cached state as it is.
Cached(w) ==
    /\ view[w].at = "answered"
    /\ view' = [view EXCEPT ![w].at = "setup", ![w].answer = "none"]
    /\ IF view[w].answer = "unclear" THEN UNCHANGED <<cache, learned>>
       ELSE cache' = view[w].answer /\ learned' = (w \in current)
    /\ UNCHANGED <<iface, gen2, firmware, lan, password, current>>

-----------------------------------------------------------------------------
(* _setup_live, and the resolvers of the live view and of the recorder *)

To(w, at, source) == view' = [view EXCEPT ![w].at = at, ![w].source = source]

\* Without go2rtc there are snapshots from the cloud, but not in place of a local stream.
SetUp(w, go2rtc) ==
    /\ view[w].at = "setup"
    /\ IF go2rtc
       THEN view' = [view EXCEPT ![w].at = "resolve", ![w].localOnly = Wanted(w)]
       ELSE To(w, "idle", IF Wanted(w) THEN "refused" ELSE "snapshots")
    /\ UNCHANGED <<iface, gen2, firmware, lan, password, cache, current, learned>>

Failed(w) == IF view[w].localOnly THEN "refused" ELSE "snapshots"

\* The resolver looks again at the cache and the password, when the stream is started and at
\* every refresh.  A local source needs an address.  Otherwise the cloud is asked for a stream,
\* and the answer awaited.  A stream that does not start falls back on what _setup_live found
\* before.
Decide(w) ==
    /\ view[w].at \in {"resolve", "streaming"}
    /\ \/ Wanted(w) /\ lan /\ To(w, "streaming", "local")
       \/ ~Wanted(w) /\ view' = [view EXCEPT ![w].at = IF @ = "resolve" THEN "opening"
                                                       ELSE "reopening"]
       \/ view[w].at = "resolve" /\ To(w, "idle", Failed(w))
    /\ UNCHANGED <<iface, gen2, firmware, lan, password, cache, current, learned>>

\* The cloud has opened a stream for the view, or could not; the cache is not looked at again.
Opened(w) ==
    /\ view[w].at \in Opening
    /\ \/ To(w, "streaming", "cloud")
       \/ view[w].at = "opening" /\ To(w, "idle", Failed(w))
       \/ view[w].at = "reopening" /\ view' = [view EXCEPT ![w].at = "streaming"]
    /\ UNCHANGED <<iface, gen2, firmware, lan, password, cache, current, learned>>

\* The quality is changed: the live view is set up again, without a new request.
Again(w) == /\ view[w].at \in {"streaming", "idle"}
            /\ To(w, "setup", "none")
            /\ UNCHANGED <<iface, gen2, firmware, lan, password, cache, current, learned>>

Leave(w) == /\ view[w].at \in {"streaming", "idle"}
            /\ view' = [view EXCEPT ![w] = NewView]
            /\ current' = current \ {w}
            /\ UNCHANGED <<iface, gen2, firmware, lan, password, cache, learned>>

LocalNext == \/ Switch \/ Update \/ Save
             \/ \E w \in Views : \/ Open(w) \/ Answered(w) \/ Cached(w) \/ Decide(w)
                                 \/ Opened(w) \/ Again(w) \/ Leave(w)
                                 \/ \E go2rtc \in BOOLEAN : SetUp(w, go2rtc)

LocalSpec == LocalInit /\ [][LocalNext]_localVars

-----------------------------------------------------------------------------
(* Properties *)

\* Every variable has its type.
LocalTypeOK ==
    /\ iface \in States /\ gen2 \in BOOLEAN /\ lan \in BOOLEAN /\ learned \in BOOLEAN
    /\ firmware \in Versions
    /\ password \in Passwords
    /\ cache \in States \cup {"unknown"}
    /\ view \in [Views -> [at : {"closed", "asking", "answered", "setup", "resolve",
                                 "streaming", "idle"} \cup Opening,
                           password : Passwords,
                           answer : States \cup {"none", "unclear"}, localOnly : BOOLEAN,
                           source : {"none", "local", "cloud", "snapshots", "refused"}]]
    /\ current \subseteq Views

\* "Fail closed: no cloud session for a local-only camera": once an answer has told that the
\* interface is active, and as long as it is, no view whose entry has a good password asks the
\* cloud for a stream, whatever requests fail, views are opened and streams break in the meantime.
\* What a view has asked for before that answer came may still be opened.
FailsClosed ==
    [][learned /\ iface = "active" =>
           \A w \in Views :
               view[w].password = "good" /\ view'[w].at \in Opening =>
                   view[w].at \in Opening]_localVars

\* A camera that can be asked can still be asked after every update of its firmware.
UpdatesKeepTheInterface == [][ShouldQuery => ShouldQuery']_localVars

=============================================================================
