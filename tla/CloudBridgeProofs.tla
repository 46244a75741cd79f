------------------------- MODULE CloudBridgeProofs -------------------------
(***************************************************************************)
(* CloudBridge implements Register, for any number of worker threads and   *)
(* any set of values.                                                      *)
(***************************************************************************)
EXTENDS CloudBridge, TLAPS

USE CloudAssumption

-----------------------------------------------------------------------------
(* Documents *)

\* d is a document of the section.
IsDoc(d) == /\ d = [f \in DOMAIN d |-> d[f]]
            /\ DOMAIN d \subseteq Section.fields
            /\ \A f \in DOMAIN d : d[f] \in Values

\* A document is a function from some of the fields to values.
LEMMA DocsAreDocs == \A d : d \in Docs <=> IsDoc(d)
<1>1. ASSUME NEW d, d \in Docs
      PROVE  IsDoc(d)
  BY <1>1 DEF Docs, IsDoc
<1>2. ASSUME NEW d, IsDoc(d)
      PROVE  d \in Docs
  <2>1. d \in [DOMAIN d -> Values]
    BY <1>2 DEF IsDoc
  <2>2. DOMAIN d \in SUBSET Section.fields
    BY <1>2 DEF IsDoc
  <2> QED
    BY <2>1, <2>2 DEF Docs
<1> QED
  BY <1>1, <1>2

\* The empty document is one.
LEMMA NoDocIsDoc == NoDoc \in Docs /\ DOMAIN NoDoc = {}
BY DocsAreDocs DEF NoDoc, IsDoc

\* What it means to write one document over another.
LEMMA OverIsDoc ==
  ASSUME NEW d \in Docs, NEW e \in Docs
  PROVE  /\ Over(d, e) \in Docs
         /\ DOMAIN Over(d, e) = DOMAIN d \cup DOMAIN e
         /\ \A f \in DOMAIN d : Over(d, e)[f] = d[f]
         /\ \A f \in DOMAIN e \ DOMAIN d : Over(d, e)[f] = e[f]
<1>1. IsDoc(d) /\ IsDoc(e)
  BY DocsAreDocs
<1>2. IsDoc(Over(d, e))
  BY <1>1 DEF Over, IsDoc
<1> QED
  BY <1>2, DocsAreDocs DEF Over

\* What it means to drop fields.
LEMMA WithoutIsDoc ==
  ASSUME NEW d \in Docs, NEW F
  PROVE  /\ Without(d, F) \in Docs
         /\ DOMAIN Without(d, F) = DOMAIN d \ F
         /\ \A f \in DOMAIN d \ F : Without(d, F)[f] = d[f]
<1>1. IsDoc(d)
  BY DocsAreDocs
<1>2. IsDoc(Without(d, F))
  BY <1>1 DEF Without, IsDoc
<1> QED
  BY <1>2, DocsAreDocs DEF Without

-----------------------------------------------------------------------------
(* The sections *)

\* What the proofs need to know of the twelve sections.
LEMMA SectionFacts ==
  ASSUME kind \in DOMAIN Sections
  PROVE  /\ Section.merges \in BOOLEAN
         /\ Section.must \subseteq Section.fields /\ Section.adds \subseteq Section.fields
         /\ ~Section.merges => Section.fields = Section.must \cup Section.adds
         /\ kind = "light" => Section.must = {"frontLightOn"}
         /\ kind = "friend" => Section.merges /\ Section.fields = Friend.fields
         /\ ComesAndGoes => Section.merges
<1> USE DEF Section, Sections, ComesAndGoes, Whole
<1>1. CASE kind = "privacy"
  BY <1>1 DEF Privacy
<1>2. CASE kind = "light"
  BY <1>2 DEF Light
<1>3. CASE kind = "motion"
  BY <1>3 DEF Motion
<1>4. CASE kind = "intrusion"
  BY <1>4 DEF Intrusion
<1>5. CASE kind = "audio"
  BY <1>5 DEF Audio
<1>6. CASE kind = "recording"
  BY <1>6 DEF Recording
<1>7. CASE kind = "siren"
  BY <1>7 DEF Siren
<1>8. CASE kind = "pan"
  BY <1>8 DEF Pan
<1>9. CASE kind = "schedule"
  BY <1>9 DEF Schedule
<1>10. CASE kind = "alarm"
  BY <1>10 DEF Alarm
<1>11. CASE kind = "rule"
  BY <1>11 DEF Rule
<1>12. CASE kind = "friend"
  BY <1>12 DEF Friend
<1> QED
  BY <1>1, <1>2, <1>3, <1>4, <1>5, <1>6, <1>7, <1>8, <1>9, <1>10, <1>11, <1>12

-----------------------------------------------------------------------------
(* Calls *)

\* What a call asks for: fields with values, or fields to be dropped; a section without a read
\* writes all of its fields.
Asked(r) == /\ r.op \in {"set", "create", "erase"}
            /\ r.give \in Docs /\ r.drop \subseteq Section.fields
            /\ DOMAIN r.give \cap r.drop = {}
            /\ r.op # "set" => r.drop = {} /\ ComesAndGoes
            /\ r.op = "set" /\ ~Section.merges => DOMAIN r.give = Section.fields /\ r.drop = {}

\* What set_light and its like fill in is a document.
LEMMA FilledIsDoc ==
  ASSUME kind \in DOMAIN Sections, NEW F \in SUBSET (Section.fields \ Section.adds),
         Section.must \subseteq F, NEW give \in [F -> Values]
  PROVE  Filled(give) \in Docs /\ DOMAIN Filled(give) = F \cup Section.adds
<1> DEFINE added == [f \in Section.adds |-> IF kind = "light" THEN give["frontLightOn"] ELSE Fixed]
<1>1. give \in Docs
  BY DEF Docs
<1>2. kind = "light" => give["frontLightOn"] \in Values
  BY SectionFacts
<1>3. added \in [Section.adds -> Values]
  BY <1>2
<1>4. added \in Docs
  BY <1>3, SectionFacts DEF Docs
<1>5. Filled(give) = Over(give, added)
  BY DEF Filled
<1>6. DOMAIN give = F /\ DOMAIN added = Section.adds
  OBVIOUS
<1> HIDE DEF added
<1> QED
  BY <1>1, <1>4, <1>5, <1>6, OverIsDoc

\* Every call of the program asks for something a section has.
LEMMA RequestsAsk ==
  ASSUME kind \in DOMAIN Sections, NEW r \in Requests
  PROVE  Asked(r)
<1>1. CASE r \in Settings /\ kind = "friend"
  <2>1. CASE \E c \in Friend.fields : r = Set([f \in {c} |-> Fixed], {})
    <3>1. PICK c \in Friend.fields : r = Set([f \in {c} |-> Fixed], {})
      BY <2>1
    <3>2. [f \in {c} |-> Fixed] \in Docs
      BY <1>1, SectionFacts, DocsAreDocs DEF IsDoc
    <3> QED
      BY <1>1, <3>1, <3>2, SectionFacts DEF Set, Asked
  <2>2. CASE \E c \in Friend.fields : r = Set(NoDoc, {c})
    BY <1>1, <2>2, SectionFacts, NoDocIsDoc DEF Set, Asked
  <2> QED
    BY <1>1, <2>1, <2>2 DEF Settings
<1>2. CASE r \in Settings /\ kind # "friend"
  <2>1. PICK F \in SUBSET (Section.fields \ Section.adds) :
           /\ Section.must \subseteq F
           /\ \E give \in [F -> Values] : r = Set(Filled(give), {})
    BY <1>2 DEF Settings
  <2>2. PICK give \in [F -> Values] : r = Set(Filled(give), {})
    BY <2>1
  <2>3. Filled(give) \in Docs /\ DOMAIN Filled(give) = F \cup Section.adds
    BY <2>1, FilledIsDoc
  <2>4. ~Section.merges => F \cup Section.adds = Section.fields
    BY <2>1, SectionFacts
  <2> QED
    BY <2>2, <2>3, <2>4 DEF Set, Asked
<1>3. CASE r \in Comings /\ ComesAndGoes
  <2>1. /\ r.op = "create" /\ r.give \in FullDocs \cup {NoDoc} /\ r.drop = {}
    BY <1>3 DEF Comings
  <2>2. FullDocs \subseteq Docs
    BY DEF FullDocs, Docs
  <2> QED
    BY <1>3, <2>1, <2>2, NoDocIsDoc DEF Asked
<1>4. CASE r \in Goings /\ ComesAndGoes
  BY <1>4, NoDocIsDoc DEF Goings, Asked
<1> QED
  BY <1>1, <1>2, <1>3, <1>4 DEF Requests

CallRecords == [op : {"none", "set", "create", "erase"}, give : Docs,
                drop : SUBSET Section.fields, at : {"idle", "read", "put"}, body : Docs]

\* The document a read finds when it succeeds.
Present == IF exists = "there" THEN doc ELSE NoDoc

\* A call is idle or asks for something; only a call that merges reads.
CallsAsk == \A t \in Threads :
    /\ call[t].at = "idle" => call[t] = Idle
    /\ call[t].at # "idle" => Asked(call[t])
    /\ call[t].at = "read" => call[t].op = "set" /\ Section.merges

\* What a PUT carries: the fields the call names; all the document there is, if nothing can have
\* come between its read and its write.
BodiesServe == \A t \in Threads : call[t].at = "put" =>
    /\ call[t].op # "set" \/ ~Section.merges => call[t].body = call[t].give
    /\ \A f \in DOMAIN call[t].give : /\ f \in DOMAIN call[t].body
                                      /\ call[t].body[f] = call[t].give[f]
    /\ DOMAIN call[t].body \cap call[t].drop = {}
    /\ call[t].op = "set" /\ Section.merges /\ tidy => call[t].body = Merged(t, Present)

TidyCallsAreAlone ==
    tidy /\ Section.merges =>
        \A t, u \in Threads : call[t].at # "idle" /\ call[u].at # "idle" => t = u

\* The inductive invariant.
CloudInv == /\ CloudTypeOK /\ call \in [Threads -> CallRecords]
            /\ CallsAsk /\ BodiesServe /\ TidyCallsAreAlone

\* A merge gives the fields of the call, drops what it drops, and leaves the rest.
LEMMA MergedIsDoc ==
  ASSUME kind \in DOMAIN Sections, NEW t \in Threads, call \in [Threads -> CallRecords],
         CallsAsk, call[t].at # "idle", NEW read \in Docs
  PROVE  /\ Merged(t, read) \in Docs
         /\ \A f \in DOMAIN call[t].give : /\ f \in DOMAIN Merged(t, read)
                                           /\ Merged(t, read)[f] = call[t].give[f]
         /\ DOMAIN Merged(t, read) \cap call[t].drop = {}
         /\ \A f \in (DOMAIN read \cup DOMAIN Merged(t, read))
                         \ (DOMAIN call[t].give \cup call[t].drop) :
               f \in DOMAIN read /\ f \in DOMAIN Merged(t, read) /\ Merged(t, read)[f] = read[f]
<1> DEFINE give == call[t].give
           drop == call[t].drop
           both == Over(give, read)
<1>1. give \in Docs /\ DOMAIN give \cap drop = {}
  BY DEF CallRecords, CallsAsk, Asked
<1>2. /\ both \in Docs /\ DOMAIN both = DOMAIN give \cup DOMAIN read
      /\ \A f \in DOMAIN give : both[f] = give[f]
      /\ \A f \in DOMAIN read \ DOMAIN give : both[f] = read[f]
  BY <1>1, OverIsDoc
<1>3. /\ Without(both, drop) \in Docs /\ DOMAIN Without(both, drop) = DOMAIN both \ drop
      /\ \A f \in DOMAIN both \ drop : Without(both, drop)[f] = both[f]
  BY <1>2, WithoutIsDoc
<1>4. Merged(t, read) = Without(both, drop)
  BY DEF Merged
<1> HIDE DEF give, drop, both
<1>5. /\ Merged(t, read) \in Docs
      /\ \A f \in DOMAIN give : f \in DOMAIN Merged(t, read) /\ Merged(t, read)[f] = give[f]
      /\ DOMAIN Merged(t, read) \cap drop = {}
      /\ \A f \in (DOMAIN read \cup DOMAIN Merged(t, read)) \ (DOMAIN give \cup drop) :
            f \in DOMAIN read /\ f \in DOMAIN Merged(t, read) /\ Merged(t, read)[f] = read[f]
  BY <1>1, <1>2, <1>3, <1>4
<1> QED
  BY <1>5 DEF give, drop

\* A cloud that nobody has called satisfies the invariant.
LEMMA CloudInitInv == CloudInit => CloudInv
<1> SUFFICES ASSUME CloudInit
             PROVE  CloudInv
  OBVIOUS
<1>1. kind \in DOMAIN Sections /\ tidy \in BOOLEAN
  BY DEF CloudInit
<1>2. doc \in Docs
  <2>1. CASE kind = "friend"
    <3>1. PICK F \in SUBSET Friend.fields : doc \in [F -> {Fixed}]
      BY <2>1 DEF CloudInit
    <3>2. doc \in [F -> Values] /\ F \subseteq Section.fields
      BY <1>1, <2>1, <3>1, SectionFacts
    <3> QED
      BY <3>2 DEF Docs
  <2>2. CASE kind # "friend"
    BY <2>2 DEF CloudInit, FullDocs, Docs
  <2> QED
    BY <2>1, <2>2
<1>3. Idle \in CallRecords /\ Idle.at = "idle"
  BY NoDocIsDoc DEF Idle, CallRecords
<1>4. call \in [Threads -> CallRecords] /\ \A t \in Threads : call[t] = Idle
  BY <1>3 DEF CloudInit
<1>5. CloudTypeOK
  BY <1>1, <1>2, <1>3, <1>4 DEF CloudTypeOK, CloudInit, CallRecords
<1>6. CallsAsk /\ BodiesServe /\ TidyCallsAreAlone
  BY <1>3, <1>4 DEF CallsAsk, BodiesServe, TidyCallsAreAlone
<1> QED
  BY <1>4, <1>5, <1>6 DEF CloudInv

-----------------------------------------------------------------------------
(* Steps *)

\* The section does not change under way.
LEMMA SectionKept ==
  ASSUME kind' = kind
  PROVE  Section' = Section /\ Docs' = Docs /\ CallRecords' = CallRecords
         /\ (ComesAndGoes' <=> ComesAndGoes)
BY DEF Section, Docs, CallRecords, ComesAndGoes

\* One thread's call becomes r; the document changes only when no other call depends on it.
LEMMA OneCall ==
  ASSUME CloudInv, NEW t \in Threads, NEW r \in CallRecords,
         call' = [call EXCEPT ![t] = r], kind' = kind, tidy' = tidy,
         r.at = "idle" => r = Idle,
         r.at # "idle" => Asked(r),
         r.at = "read" => r.op = "set" /\ Section.merges,
         r.at = "put" =>
             /\ r.op # "set" \/ ~Section.merges => r.body = r.give
             /\ \A f \in DOMAIN r.give : f \in DOMAIN r.body /\ r.body[f] = r.give[f]
             /\ DOMAIN r.body \cap r.drop = {}
             /\ r.op = "set" /\ Section.merges /\ tidy =>
                    r.body = Without(Over(r.give, Present'), r.drop),
         tidy /\ Section.merges /\ r.at # "idle" =>
             \A u \in Threads \ {t} : call[u].at = "idle",
         UNCHANGED <<doc, exists>> \/ call[t].at # "idle",
         doc' \in Docs, exists' \in {"absent", "there", "gone"},
         told' \in [Threads -> {"none", "ok", "refused", "raised"}]
  PROVE  CloudInv'
<1>0. Section' = Section /\ Docs' = Docs /\ CallRecords' = CallRecords
      /\ (ComesAndGoes' <=> ComesAndGoes)
  BY SectionKept
<1>1. call' \in [Threads -> CallRecords] /\ call'[t] = r
      /\ \A u \in Threads \ {t} : call'[u] = call[u]
  BY DEF CloudInv
<1>2. CloudTypeOK'
  BY <1>0, <1>1 DEF CloudInv, CloudTypeOK, CallRecords
<1>3. CallsAsk'
  <2>1. ASSUME NEW u \in Threads
        PROVE  /\ call'[u].at = "idle" => call'[u] = Idle'
               /\ call'[u].at # "idle" => Asked(call[u])'
               /\ call'[u].at = "read" => call'[u].op = "set" /\ Section'.merges
    <3>1. CASE u = t
      BY <1>0, <1>1, <3>1 DEF Asked, Idle, NoDoc
    <3>2. CASE u # t
      BY <1>0, <1>1, <3>2 DEF CloudInv, CallsAsk, Asked, Idle, NoDoc
    <3> QED
      BY <3>1, <3>2
  <2> QED
    BY <2>1 DEF CallsAsk
<1>4. TidyCallsAreAlone'
  BY <1>0, <1>1 DEF CloudInv, TidyCallsAreAlone
<1>5. BodiesServe'
  <2>1. ASSUME NEW u \in Threads, call'[u].at = "put"
        PROVE  /\ call'[u].op # "set" \/ ~Section'.merges => call'[u].body = call'[u].give
               /\ \A f \in DOMAIN call'[u].give : /\ f \in DOMAIN call'[u].body
                                                  /\ call'[u].body[f] = call'[u].give[f]
               /\ DOMAIN call'[u].body \cap call'[u].drop = {}
               /\ call'[u].op = "set" /\ Section'.merges /\ tidy' =>
                      call'[u].body = Merged(u, Present)'
    <3>1. CASE u = t
      BY <1>0, <1>1, <2>1, <3>1 DEF Merged
    <3>2. CASE u # t
      <4>1. call'[u] = call[u] /\ call[u].at = "put"
        BY <1>1, <2>1, <3>2
      <4>2. ASSUME tidy, Section.merges
            PROVE  Present' = Present
        BY <4>1, <4>2, <3>2 DEF CloudInv, TidyCallsAreAlone, Present, NoDoc
      <4>3. Present' = Present => Merged(u, Present)' = Merged(u, Present)
        BY <4>1 DEF Merged, Over, Without
      <4> QED
        BY <1>0, <4>1, <4>2, <4>3 DEF CloudInv, BodiesServe
    <3> QED
      BY <3>1, <3>2
  <2> QED
    BY <2>1 DEF BodiesServe
<1> QED
  BY <1>0, <1>1, <1>2, <1>3, <1>4, <1>5 DEF CloudInv

\* A call that ends.
LEMMA EndInv ==
  ASSUME CloudInv, NEW t \in Threads, NEW a \in {"ok", "refused", "raised"}, End(t, a),
         kind' = kind, tidy' = tidy, call[t].at # "idle",
         doc' \in Docs, exists' \in {"absent", "there", "gone"}
  PROVE  CloudInv'
<1>1. Idle \in CallRecords /\ Idle.at = "idle"
  BY NoDocIsDoc DEF Idle, CallRecords
<1>2. call' = [call EXCEPT ![t] = Idle]
  BY DEF End
<1>3. told' \in [Threads -> {"none", "ok", "refused", "raised"}]
  BY DEF End, CloudInv, CloudTypeOK
<1> HIDE DEF CloudInv
<1> QED
  BY <1>1, <1>2, <1>3, OneCall

\* A read, or its failure, keeps the invariant.
LEMMA ReadFromInv ==
  ASSUME CloudInv, NEW t \in Threads, call[t].at = "read", NEW read \in Docs, ReadFrom(t, read),
         tidy => read = Present, UNCHANGED <<kind, tidy, doc, exists>>
  PROVE  CloudInv'
<1>1. kind \in DOMAIN Sections /\ doc \in Docs /\ exists \in {"absent", "there", "gone"}
      /\ told \in [Threads -> {"none", "ok", "refused", "raised"}]
      /\ call \in [Threads -> CallRecords] /\ CallsAsk
  BY DEF CloudInv, CloudTypeOK
<1>2. CASE kind = "rule" /\ read = NoDoc
  <2>1. End(t, "refused")
    BY <1>2 DEF ReadFrom
  <2> QED
    BY <1>1, <2>1, EndInv
<1>3. CASE ~(kind = "rule" /\ read = NoDoc)
  <2> DEFINE r == [call[t] EXCEPT !.at = "put", !.body = Merged(t, read)]
  <2>1. call' = [call EXCEPT ![t] = r] /\ told' = told
    BY <1>1, <1>3 DEF ReadFrom
  <2>2. /\ Merged(t, read) \in Docs
        /\ \A f \in DOMAIN call[t].give : /\ f \in DOMAIN Merged(t, read)
                                          /\ Merged(t, read)[f] = call[t].give[f]
        /\ DOMAIN Merged(t, read) \cap call[t].drop = {}
    BY <1>1, MergedIsDoc
  <2>3. /\ r \in CallRecords /\ r.at = "put" /\ r.body = Merged(t, read)
        /\ r.op = call[t].op /\ r.give = call[t].give /\ r.drop = call[t].drop
    BY <1>1, <2>2 DEF CallRecords
  <2>4. call[t].op = "set" /\ Section.merges /\ Asked(call[t])
    BY <1>1 DEF CallsAsk
  <2>5. Asked(r)
    BY <2>3, <2>4 DEF Asked
  <2>6. Present' = Present
    BY DEF Present, NoDoc
  <2>7. tidy => r.body = Without(Over(r.give, Present'), r.drop)
    BY <2>3, <2>6 DEF Merged
  <2>8. tidy /\ Section.merges => \A u \in Threads \ {t} : call[u].at = "idle"
    BY DEF CloudInv, TidyCallsAreAlone
  <2> HIDE DEF r
  <2> QED
    BY <1>1, <2>1, <2>2, <2>3, <2>4, <2>5, <2>7, <2>8, OneCall
<1> QED
  BY <1>2, <1>3

\* What a read finds is a document.
LEMMA PresentIsDoc == CloudInv => Present \in Docs
BY NoDocIsDoc DEF CloudInv, CloudTypeOK, Present

\* A call keeps the invariant.
LEMMA CallInv ==
  ASSUME CloudInv, NEW t \in Threads, Call(t)
  PROVE  CloudInv'
<1>1. kind \in DOMAIN Sections /\ doc \in Docs /\ exists \in {"absent", "there", "gone"}
      /\ told \in [Threads -> {"none", "ok", "refused", "raised"}]
  BY DEF CloudInv, CloudTypeOK
<1>2. PICK r \in Requests :
         LET reads == Section.merges /\ r.op = "set"
         IN call' = [call EXCEPT ![t] = [op |-> r.op, give |-> r.give, drop |-> r.drop,
                                         at |-> IF reads THEN "read" ELSE "put",
                                         body |-> IF reads THEN NoDoc ELSE r.give]]
  BY DEF Call
<1>3. Asked(r)
  BY <1>1, RequestsAsk
<1> DEFINE reads == Section.merges /\ r.op = "set"
           c == [op |-> r.op, give |-> r.give, drop |-> r.drop,
                 at |-> IF reads THEN "read" ELSE "put",
                 body |-> IF reads THEN NoDoc ELSE r.give]
<1>4. call' = [call EXCEPT ![t] = c] /\ UNCHANGED <<kind, tidy, doc, exists>>
  BY <1>2 DEF Call
<1>5. c \in CallRecords /\ c.op = r.op /\ c.give = r.give /\ c.drop = r.drop
      /\ c.at \in {"read", "put"} /\ (c.at = "read" <=> reads) /\ (~reads => c.body = c.give)
  BY <1>3, NoDocIsDoc DEF CallRecords, Asked
<1>6. Asked(c)
  BY <1>3, <1>5 DEF Asked
<1>7. told' \in [Threads -> {"none", "ok", "refused", "raised"}]
  BY <1>1 DEF Call
<1>8. tidy /\ Section.merges => \A u \in Threads \ {t} : call[u].at = "idle"
  BY DEF Call
<1>9. c.at = "put" =>
         /\ ~(c.op = "set" /\ Section.merges)
         /\ c.body = c.give /\ DOMAIN c.body \cap c.drop = {}
         /\ \A f \in DOMAIN c.give : f \in DOMAIN c.body /\ c.body[f] = c.give[f]
  BY <1>5, <1>6 DEF Asked
<1> HIDE DEF c
<1> QED
  BY <1>1, <1>4, <1>5, <1>6, <1>7, <1>8, <1>9, OneCall

\* A request that the cloud takes leaves a document.
LEMMA TakenTypes ==
  ASSUME CloudInv, NEW t \in Threads, Taken(t)
  PROVE  doc' \in Docs /\ exists' \in {"absent", "there", "gone"}
<1>1. doc \in Docs /\ exists \in {"absent", "there", "gone"} /\ call[t].body \in Docs
  BY DEF CloudInv, CloudTypeOK
<1> QED
  BY <1>1 DEF Taken

\* Every step keeps the invariant.
LEMMA CloudStep == CloudInv /\ [CloudNext]_cloudVars => CloudInv'
<1> SUFFICES ASSUME CloudInv, [CloudNext]_cloudVars
             PROVE  CloudInv'
  OBVIOUS
<1>0. doc \in Docs /\ exists \in {"absent", "there", "gone"}
  BY DEF CloudInv, CloudTypeOK
<1>1. ASSUME NEW t \in Threads, Call(t)
      PROVE  CloudInv'
  BY <1>1, CallInv
<1>2. ASSUME NEW t \in Threads, Read(t)
      PROVE  CloudInv'
  <2>1. call[t].at = "read" /\ UNCHANGED <<kind, tidy, doc, exists>>
    BY <1>2 DEF Read
  <2>2. CASE ReadFrom(t, Present)
    BY <2>1, <2>2, PresentIsDoc, ReadFromInv
  <2>3. CASE ~tidy /\ ReadFrom(t, NoDoc)
    BY <2>1, <2>3, NoDocIsDoc, ReadFromInv
  <2> QED
    BY <1>2, <2>2, <2>3 DEF Read, Present
<1>3. ASSUME NEW t \in Threads, ReadRaises(t)
      PROVE  CloudInv'
  <2>1. call[t].at = "read" /\ End(t, "raised") /\ UNCHANGED <<kind, tidy, doc, exists>>
    BY <1>3 DEF ReadRaises
  <2> QED
    BY <1>0, <2>1, EndInv
<1>4. ASSUME NEW t \in Threads, Put(t)
      PROVE  CloudInv'
  <2>1. call[t].at = "put" /\ UNCHANGED <<kind, tidy>>
    BY <1>4 DEF Put
  <2>2. PICK a \in {"ok", "refused", "raised"} :
           End(t, a) /\ (Taken(t) \/ UNCHANGED <<doc, exists>>)
    BY <1>4 DEF Put
  <2>3. doc' \in Docs /\ exists' \in {"absent", "there", "gone"}
    BY <1>0, <2>2, TakenTypes
  <2> QED
    BY <2>1, <2>2, <2>3, EndInv
<1>5. CASE UNCHANGED cloudVars
  <2>1. UNCHANGED <<kind, tidy, doc, exists, call, told>>
    BY <1>5 DEF cloudVars
  <2>2. Section' = Section /\ Docs' = Docs /\ CallRecords' = CallRecords
        /\ (ComesAndGoes' <=> ComesAndGoes)
    BY <2>1, SectionKept
  <2>3. CloudTypeOK' /\ call' \in [Threads -> CallRecords']
    BY <2>1, <2>2 DEF CloudInv, CloudTypeOK
  <2>4. CallsAsk'
    BY <2>1, <2>2 DEF CloudInv, CallsAsk, Asked, Idle, NoDoc
  <2>5. Present' = Present
    BY <2>1 DEF Present, NoDoc
  <2>6. \A t \in Threads : Merged(t, Present)' = Merged(t, Present)
    BY <2>1, <2>5 DEF Merged, Over, Without
  <2>7. BodiesServe'
    BY <2>1, <2>2, <2>6 DEF CloudInv, BodiesServe
  <2>8. TidyCallsAreAlone'
    BY <2>1, <2>2 DEF CloudInv, TidyCallsAreAlone
  <2> QED
    BY <2>3, <2>4, <2>7, <2>8 DEF CloudInv
<1> QED
  BY <1>1, <1>2, <1>3, <1>4, <1>5 DEF CloudNext

\* The inductive invariant of the cloud requests holds in every reachable state.
THEOREM CloudInvariance == CloudSpec => []CloudInv
<1>1. CloudInit => CloudInv
  BY CloudInitInv
<1>2. CloudInv /\ [CloudNext]_cloudVars => CloudInv'
  BY CloudStep
<1> QED
  BY <1>1, <1>2, PTL DEF CloudSpec

\* Every variable has its type: among them, no request ever carries a field that its section of
\* the API does not have.
THEOREM CloudTypeCorrectness == CloudSpec => []CloudTypeOK
<1>1. CloudInv => CloudTypeOK
  BY DEF CloudInv
<1> QED
  BY <1>1, CloudInvariance, PTL

-----------------------------------------------------------------------------
(* The refinement: a call is what it asks for, a read is a step of its own  *)
(* that the register does not see.                                          *)

Asks(r) == [op |-> r.op, give |-> r.give, drop |-> r.drop]
Requested == [t \in Threads |-> Asks(call[t])]
Exact == tidy \/ ~Section.merges

\* An idle thread asks the register for nothing.
LEMMA IdleAsksNothing == Asks(Idle) = R!Nothing
<1>1. NoDoc = [f \in {} |-> f]
  BY DEF NoDoc
<1> QED
  BY <1>1 DEF Asks, Idle, R!Nothing

\* A step of one thread changes what that thread asks for.
LEMMA RequestedStep ==
  ASSUME CloudInv, NEW t \in Threads, NEW r, call' = [call EXCEPT ![t] = r]
  PROVE  Requested' = [Requested EXCEPT ![t] = Asks(r)] /\ Requested'[t] = Asks(r)
<1>1. call'[t] = r /\ \A u \in Threads \ {t} : call'[u] = call[u]
  BY DEF CloudInv
<1>2. Requested' = [u \in Threads |-> Asks(call'[u])]
  BY DEF Requested, Asks
<1>3. \A u \in Threads : Requested'[u] = IF u = t THEN Asks(r) ELSE Asks(call[u])
  BY <1>1, <1>2
<1>4. Requested = [u \in Threads |-> Asks(call[u])]
  BY DEF Requested
<1> QED
  BY <1>2, <1>3, <1>4

\* Initial states are initial states of the register.
LEMMA CloudInitRefines == CloudInit => R!RegInit
<1> SUFFICES ASSUME CloudInit
             PROVE  R!RegInit
  OBVIOUS
<1>1. Requested = [t \in Threads |-> R!Nothing]
  BY IdleAsksNothing DEF Requested, CloudInit
<1>2. Exact \in BOOLEAN
  BY DEF Exact
<1>3. exists \in {"absent", "there"} /\ told = [t \in Threads |-> "none"]
  BY DEF CloudInit
<1> QED
  BY <1>1, <1>2, <1>3 DEF R!RegInit, Requested, Asks, Exact

\* The PUT of a call that sets fields changes the document as the call asked.
LEMMA SetChanges ==
  ASSUME CloudInv, NEW t \in Threads, call[t].at = "put", call[t].op = "set", exists = "there"
  PROVE  R!Changed(Asks(call[t]), doc, call[t].body)
<1> DEFINE give == call[t].give
           drop == call[t].drop
           body == call[t].body
<1>1. /\ \A f \in DOMAIN give : f \in DOMAIN body /\ body[f] = give[f]
      /\ DOMAIN body \cap drop = {}
  BY DEF CloudInv, BodiesServe
<1>2. ASSUME Exact
      PROVE  \A f \in (DOMAIN doc \cup DOMAIN body) \ (DOMAIN give \cup drop) :
                f \in DOMAIN doc /\ f \in DOMAIN body /\ body[f] = doc[f]
  <2>1. CASE Section.merges
    <3>1. tidy /\ Present = doc
      BY <1>2, <2>1 DEF Exact, Present
    <3>2. body = Merged(t, doc)
      BY <2>1, <3>1 DEF CloudInv, BodiesServe
    <3>3. kind \in DOMAIN Sections /\ doc \in Docs /\ call \in [Threads -> CallRecords]
          /\ CallsAsk
      BY DEF CloudInv, CloudTypeOK
    <3> QED
      BY <3>2, <3>3, MergedIsDoc
  <2>2. CASE ~Section.merges
    <3>1. body = give /\ DOMAIN give = Section.fields
      BY <2>2 DEF CloudInv, BodiesServe, CallsAsk, Asked
    <3>2. DOMAIN doc \subseteq Section.fields
      BY DocsAreDocs DEF CloudInv, CloudTypeOK, IsDoc
    <3> QED
      BY <3>1, <3>2
  <2> QED
    BY <2>1, <2>2
<1> QED
  BY <1>1, <1>2 DEF R!Changed, Asks, Exact

\* What the cloud takes is the effect of the call on the register.
LEMMA TakenRefines ==
  ASSUME CloudInv, NEW t \in Threads, call[t].at = "put", Taken(t)
  PROVE  R!Effect(t)
<1>1. Requested[t] = Asks(call[t])
  BY DEF Requested
<1>2. CASE call[t].op = "set" /\ exists = "there" /\ doc' = call[t].body /\ UNCHANGED exists
  <2>1. R!Changed(Asks(call[t]), doc, doc')
    BY <1>2, SetChanges
  <2> QED
    BY <1>1, <1>2, <2>1 DEF R!Effect, Requested, Asks
<1>3. CASE call[t].op = "create" /\ (IF exists = "absent"
                                     THEN doc' = call[t].body /\ exists' = "there"
                                     ELSE UNCHANGED <<doc, exists>>)
  <2>1. call[t].body = call[t].give
    BY <1>3 DEF CloudInv, BodiesServe
  <2> QED
    BY <1>1, <1>3, <2>1 DEF R!Effect, Requested, Asks
<1>4. CASE call[t].op = "erase" /\ exists = "there" /\ exists' = "gone" /\ UNCHANGED doc
  BY <1>1, <1>4 DEF R!Effect, Requested, Asks
<1> QED
  BY <1>2, <1>3, <1>4 DEF Taken

\* A call that ends is answered.
LEMMA EndAnswers ==
  ASSUME CloudInv, NEW t \in Threads, NEW a \in {"ok", "refused", "raised"}, End(t, a),
         call[t].at # "idle", kind' = kind, tidy' = tidy,
         \/ a \in {"ok", "raised"} /\ R!Effect(t)
         \/ a \in {"refused", "raised"} /\ UNCHANGED <<doc, exists>>
  PROVE  R!Answer(t, a)
<1>1. Requested[t].op # "none"
  BY DEF Requested, Asks, CloudInv, CallsAsk, Asked
<1>2. Requested' = [Requested EXCEPT ![t] = R!Nothing]
  BY RequestedStep, IdleAsksNothing DEF End
<1>3. Exact' = Exact
  BY SectionKept DEF Exact
<1>4. told' = [told EXCEPT ![t] = a]
  BY DEF End
<1> QED
  BY <1>1, <1>2, <1>3, <1>4 DEF R!Answer, Requested, Asks, Exact

\* A read is a refusal or a stutter.
LEMMA ReadFromRefines ==
  ASSUME CloudInv, NEW t \in Threads, call[t].at = "read", NEW read, ReadFrom(t, read),
         UNCHANGED <<kind, tidy, doc, exists>>
  PROVE  R!Answer(t, "refused") \/ UNCHANGED R!regVars
<1>1. CASE End(t, "refused")
  BY <1>1, EndAnswers
<1>2. CASE call' = [call EXCEPT ![t].at = "put", ![t].body = Merged(t, read)] /\ told' = told
  <2> DEFINE r == [call[t] EXCEPT !.at = "put", !.body = Merged(t, read)]
  <2>1. call \in [Threads -> CallRecords]
    BY DEF CloudInv
  <2>2. call' = [call EXCEPT ![t] = r] /\ Asks(r) = Asks(call[t])
    BY <1>2, <2>1 DEF CallRecords, Asks
  <2> HIDE DEF r
  <2>3. Requested' = [Requested EXCEPT ![t] = Asks(call[t])]
    BY <2>2, RequestedStep
  <2>4. Requested' = Requested
    BY <2>3 DEF Requested
  <2>5. Exact' = Exact
    BY SectionKept DEF Exact
  <2> QED
    BY <1>2, <2>4, <2>5 DEF R!regVars, Requested, Asks, Exact
<1> QED
  BY <1>1, <1>2 DEF ReadFrom

\* A call is a call of the register.
LEMMA CallRefines ==
  ASSUME CloudInv, NEW t \in Threads, Call(t)
  PROVE  R!Ask(t)
<1>1. kind \in DOMAIN Sections /\ Requested[t].op = "none"
  BY DEF CloudInv, CloudTypeOK, CallsAsk, Call, Requested, Asks, Idle
<1>2. PICK r \in Requests :
         LET reads == Section.merges /\ r.op = "set"
         IN call' = [call EXCEPT ![t] = [op |-> r.op, give |-> r.give, drop |-> r.drop,
                                         at |-> IF reads THEN "read" ELSE "put",
                                         body |-> IF reads THEN NoDoc ELSE r.give]]
  BY DEF Call
<1> DEFINE reads == Section.merges /\ r.op = "set"
           c == [op |-> r.op, give |-> r.give, drop |-> r.drop,
                 at |-> IF reads THEN "read" ELSE "put",
                 body |-> IF reads THEN NoDoc ELSE r.give]
<1>3. call' = [call EXCEPT ![t] = c]
  BY <1>2
<1>4. c.op \in {"set", "create", "erase"}
  BY <1>1, RequestsAsk DEF Asked
<1> HIDE DEF c
<1>5. Requested' = [Requested EXCEPT ![t] = Requested'[t]] /\ Requested'[t].op = c.op
  <2>1. Requested' = [Requested EXCEPT ![t] = Asks(c)] /\ Requested'[t] = Asks(c)
    BY <1>3, RequestedStep
  <2>2. Asks(c).op = c.op
    BY DEF Asks
  <2> QED
    BY <2>1, <2>2
<1>6. Exact' = Exact
  BY SectionKept DEF Exact, Call
<1>7. told' = [told EXCEPT ![t] = "none"] /\ UNCHANGED <<doc, exists>>
  BY DEF Call
<1> QED
  BY <1>1, <1>4, <1>5, <1>6, <1>7 DEF R!Ask, Requested, Asks, Exact

\* Every step is a step of the register or a stutter.
LEMMA CloudStepRefines == CloudInv /\ [CloudNext]_cloudVars => [R!RegNext]_(R!regVars)
<1> SUFFICES ASSUME CloudInv, [CloudNext]_cloudVars
             PROVE  R!RegNext \/ UNCHANGED R!regVars
  OBVIOUS
<1>1. ASSUME NEW t \in Threads, Call(t)
      PROVE  R!RegNext
  BY <1>1, CallRefines DEF R!RegNext
<1>2. ASSUME NEW t \in Threads, Read(t)
      PROVE  R!RegNext \/ UNCHANGED R!regVars
  <2>1. call[t].at = "read" /\ UNCHANGED <<kind, tidy, doc, exists>>
        /\ \E read : ReadFrom(t, read)
    BY <1>2 DEF Read
  <2>2. R!Answer(t, "refused") \/ UNCHANGED R!regVars
    BY <2>1, ReadFromRefines
  <2> QED
    BY <2>2 DEF R!RegNext
<1>3. ASSUME NEW t \in Threads, ReadRaises(t)
      PROVE  R!RegNext
  <2>1. R!Answer(t, "raised")
    BY <1>3, EndAnswers DEF ReadRaises
  <2> QED
    BY <2>1 DEF R!RegNext
<1>4. ASSUME NEW t \in Threads, Put(t)
      PROVE  R!RegNext
  <2>1. call[t].at = "put" /\ UNCHANGED <<kind, tidy>>
    BY <1>4 DEF Put
  <2>2. Taken(t) => R!Effect(t)
    BY <2>1, TakenRefines
  <2>3. \E a \in {"ok", "refused", "raised"} : R!Answer(t, a)
    BY <1>4, <2>1, <2>2, EndAnswers DEF Put
  <2> QED
    BY <2>3 DEF R!RegNext
<1>5. CASE UNCHANGED cloudVars
  <2>1. UNCHANGED <<kind, tidy, doc, exists, call, told>>
    BY <1>5 DEF cloudVars
  <2>2. Requested' = Requested /\ Exact' = Exact
    BY <2>1, SectionKept DEF Requested, Asks, Exact
  <2> QED
    BY <2>1, <2>2 DEF R!regVars, Requested, Asks, Exact
<1> QED
  BY <1>1, <1>2, <1>3, <1>4, <1>5 DEF CloudNext

\* The cloud requests implement the register: a set function that reports success has changed
\* the fields it was asked to and no other, at one instant, one that reports an error has
\* changed nothing, and what a caller names is never lost to a stale copy in its own request.
THEOREM Implementation == CloudSpec => Implements
<1>1. CloudInit => R!RegInit
  BY CloudInitRefines
<1>2. CloudInv /\ [CloudNext]_cloudVars => [R!RegNext]_(R!regVars)
  BY CloudStepRefines
<1> QED
  BY <1>1, <1>2, CloudInvariance, PTL DEF CloudSpec, Implements, R!RegSpec

=============================================================================
