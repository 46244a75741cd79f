----------------------------- MODULE CloudBridge -----------------------------
(***************************************************************************)
(* The cloud requests of adapters/cli_bridge.py: one section of the        *)
(* vendor's API (`kind`), its document, and the worker threads in which    *)
(* asyncio.to_thread runs the get_* and set_* functions of that section.   *)
(*                                                                         *)
(* The API stores what a PUT carries and resets every field the PUT leaves *)
(* out.  So a set function sends a whole document, and one that is given   *)
(* only a part first reads the rest ("read-modify-write"), in two requests *)
(* with nothing to hold other writers off in between.                      *)
(*                                                                         *)
(* Data: fields that every operation treats alike are one field; a value   *)
(* is any member of Values.                                                *)
(***************************************************************************)
EXTENDS FiniteSets

CONSTANTS Threads,     \* the worker threads
          Values,      \* what a field may hold
          Fixed        \* the value the code writes by itself: FOLLOW_SCHEDULE, a shared camera

ASSUME CloudAssumption == Fixed \in Values

VARIABLES kind,    \* the section
          tidy,    \* no call that merges overlaps another one, and no read fails
          doc,     \* the document the cloud holds
          exists,  \* "absent", "there" or "gone": rules and friends come and go
          call,    \* call[t]: the call t runs
          told     \* told[t]: what its last call returned

cloudVars == <<kind, tidy, doc, exists, call, told>>

-----------------------------------------------------------------------------
(* The sections.  fields: what the document has; must: what the page        *)
(* always passes; adds: what the function fills in by itself; merges: the   *)
(* function reads the document before it writes it.                         *)

Whole(F) == [fields |-> F, must |-> F, adds |-> {}, merges |-> FALSE]

Privacy   == Whole({"privacyMode"})
Light     == [fields |-> {"frontLightOn", "wallwasherOn", "frontLightIntensity"},
              must |-> {"frontLightOn"}, adds |-> {"wallwasherOn", "frontLightIntensity"},
              merges |-> FALSE]
Motion    == Whole({"enabled", "motionAlarmConfiguration"})
Intrusion == Whole({"enabled", "detectionMode", "sensitivity", "distance"})
Audio     == Whole({"detectGlassBreak", "detectFireAlarm"})
Recording == Whole({"recordSound"})
Siren     == Whole({"status"})
Pan       == Whole({"absolutePosition"})
Schedule  == [fields |-> {"generalLightTimes", "trigger", "scheduleStatus"},
              must |-> {"trigger"}, adds |-> {"scheduleStatus"}, merges |-> TRUE]
Alarm     == [fields |-> {"alarmDelayInSeconds", "others"},
              must |-> {"alarmDelayInSeconds"}, adds |-> {}, merges |-> TRUE]
Rule      == [fields |-> {"times", "isActive"}, must |-> {}, adds |-> {}, merges |-> TRUE]
Friend    == [fields |-> {"camera", "other camera"}, must |-> {}, adds |-> {}, merges |-> TRUE]

Sections == [privacy |-> Privacy, light |-> Light, motion |-> Motion, intrusion |-> Intrusion,
             audio |-> Audio, recording |-> Recording, siren |-> Siren, pan |-> Pan,
             schedule |-> Schedule, alarm |-> Alarm, rule |-> Rule, friend |-> Friend]
Section == Sections[kind]
ComesAndGoes == kind \in {"rule", "friend"}

-----------------------------------------------------------------------------
(* Documents and requests *)

NoDoc == [f \in {} |-> Fixed]
Docs == UNION {[F -> Values] : F \in SUBSET Section.fields}
FullDocs == [Section.fields -> Values]

Over(new, old) == [f \in DOMAIN new \cup DOMAIN old |-> IF f \in DOMAIN new THEN new[f] ELSE old[f]]
Without(d, F) == [f \in DOMAIN d \ F |-> d[f]]

\* What a call passes on: set some fields, create the document, or erase it.
Set(give, drop) == [op |-> "set", give |-> give, drop |-> drop]
Idle == [op |-> "none", give |-> NoDoc, drop |-> {}, at |-> "idle", body |-> NoDoc]

\* The fields the function sends for what its caller passed: wallwasher and intensity follow
\* the front light, and writing a schedule means following it.
Filled(give) ==
    Over(give, [f \in Section.adds |-> IF kind = "light" THEN give["frontLightOn"] ELSE Fixed])

\* share_camera and unshare_camera name one camera; the others pass what the page's form holds,
\* of which only the fields in must are never blank.
Settings ==
    IF kind = "friend"
    THEN {Set([f \in {c} |-> Fixed], {}) : c \in Friend.fields}
         \cup {Set(NoDoc, {c}) : c \in Friend.fields}
    ELSE {Set(Filled(give), {}) :
             give \in UNION {[F -> Values] : F \in {G \in SUBSET (Section.fields \ Section.adds) :
                                                      Section.must \subseteq G}}}

\* add_rule and invite_friend, delete_rule and remove_friend
Comings == IF kind = "rule" THEN [op : {"create"}, give : FullDocs, drop : {{}}]
           ELSE {[op |-> "create", give |-> NoDoc, drop |-> {}]}
Goings == {[op |-> "erase", give |-> NoDoc, drop |-> {}]}

Requests == Settings \cup (IF ComesAndGoes THEN Comings \cup Goings ELSE {})

-----------------------------------------------------------------------------
CloudInit ==
    /\ kind \in DOMAIN Sections
    /\ tidy \in BOOLEAN
    /\ doc \in IF kind = "friend" THEN UNION {[F -> {Fixed}] : F \in SUBSET Friend.fields}
               ELSE FullDocs
    /\ exists \in IF ComesAndGoes THEN {"absent", "there"} ELSE {"there"}
    /\ call = [t \in Threads |-> Idle]
    /\ told = [t \in Threads |-> "none"]

\* async_*: the handler's await puts the blocking function in a worker thread.
Call(t) ==
    /\ call[t].at = "idle"
    /\ tidy /\ Section.merges => \A u \in Threads : call[u].at = "idle"
    /\ \E r \in Requests :
          LET reads == Section.merges /\ r.op = "set"
          IN call' = [call EXCEPT ![t] = [op |-> r.op, give |-> r.give, drop |-> r.drop,
                                          at |-> IF reads THEN "read" ELSE "put",
                                          body |-> IF reads THEN NoDoc ELSE r.give]]
    /\ told' = [told EXCEPT ![t] = "none"]
    /\ UNCHANGED <<kind, tidy, doc, exists>>

End(t, a) == /\ call' = [call EXCEPT ![t] = Idle]
             /\ told' = [told EXCEPT ![t] = a]

\* Slip: the body is only what the call was given.
MergedBlindly(t, read) == Without(call[t].give, call[t].drop)

\* The body of the PUT: what was read, with what the call gives and without what it drops.
Merged(t, read) == Without(Over(call[t].give, read), call[t].drop)

\* The read of a read-modify-write.  Only edit_rule gives up when it finds no document; the
\* others go on with an empty one ("or {}", "or []").
ReadFrom(t, read) ==
    IF kind = "rule" /\ read = NoDoc
    THEN End(t, "refused")
    ELSE /\ call' = [call EXCEPT ![t].at = "put", ![t].body = Merged(t, read)]
         /\ UNCHANGED told

Read(t) ==
    /\ call[t].at = "read"
    /\ \/ ReadFrom(t, IF exists = "there" THEN doc ELSE NoDoc)
       \/ ~tidy /\ ReadFrom(t, NoDoc)
    /\ UNCHANGED <<kind, tidy, doc, exists>>

\* requests raises on a timeout or a lost connection, and the bridge lets it through.
ReadRaises(t) == /\ call[t].at = "read"
                 /\ End(t, "raised")
                 /\ UNCHANGED <<kind, tidy, doc, exists>>

\* The cloud takes the request.  A POST made again makes another document, not this one.
Taken(t) ==
    \/ /\ call[t].op = "set" /\ exists = "there"
       /\ doc' = call[t].body
       /\ UNCHANGED exists
    \/ /\ call[t].op = "create"
       /\ IF exists = "absent" THEN doc' = call[t].body /\ exists' = "there"
          ELSE UNCHANGED <<doc, exists>>
    \/ /\ call[t].op = "erase" /\ exists = "there"
       /\ exists' = "gone"
       /\ UNCHANGED doc

\* The request that changes the document: its status decides the pair that is returned, and a
\* timeout leaves open whether the cloud took it.
Put(t) ==
    /\ call[t].at = "put"
    /\ \/ Taken(t) /\ End(t, "ok")
       \/ UNCHANGED <<doc, exists>> /\ End(t, "refused")
       \/ Taken(t) /\ End(t, "raised")
       \/ UNCHANGED <<doc, exists>> /\ End(t, "raised")
    /\ UNCHANGED <<kind, tidy>>

CloudNext == \E t \in Threads : Call(t) \/ Read(t) \/ ReadRaises(t) \/ Put(t)

CloudSpec == CloudInit /\ [][CloudNext]_cloudVars

-----------------------------------------------------------------------------
(* Properties *)

\* Every variable has its type.
CloudTypeOK ==
    /\ kind \in DOMAIN Sections
    /\ tidy \in BOOLEAN
    /\ doc \in Docs
    /\ exists \in {"absent", "there", "gone"}
    /\ told \in [Threads -> {"none", "ok", "refused", "raised"}]
    /\ DOMAIN call = Threads
    /\ \A t \in Threads : /\ call[t].op \in {"none", "set", "create", "erase"}
                          /\ call[t].at \in {"idle", "read", "put"}
                          /\ call[t].give \in Docs /\ call[t].body \in Docs
                          /\ call[t].drop \subseteq Section.fields

\* The document is a register as Register.tla describes it: a set function that returns
\* (True, None) has changed exactly the fields it was asked to, at one instant; one that returns
\* an error has changed nothing; and no field that nobody named is reset or taken back, as long
\* as calls that merge do not overlap and their reads succeed.  Even when they do not, the
\* fields a call names are as it asked.
R == INSTANCE Register WITH
        reg <- doc, life <- exists, reply <- told,
        exact <- tidy \/ ~Section.merges,
        want <- [t \in Threads |-> [op |-> call[t].op, give |-> call[t].give,
                                    drop |-> call[t].drop]]
Implements == R!RegSpec

=============================================================================
