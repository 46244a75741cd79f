------------------------------ MODULE Register ------------------------------
(***************************************************************************)
(* What a write function of the cloud bridge promises its caller: one      *)
(* document of the cloud, read and written as a whole by the vendor's API, *)
(* seen through calls that each change some of its fields.                 *)
(*                                                                         *)
(* A call takes effect at one instant or not at all.  The pair it returns  *)
(* says which: (True, None) after the change, (False, reason) without it.  *)
(* A request that times out raises, and its caller does not know.  Fields  *)
(* the call does not name keep their value if `exact` holds; otherwise a   *)
(* write may carry a stale copy of them, but never of the fields it names. *)
(***************************************************************************)

CONSTANTS Threads

VARIABLES reg,      \* the document: a function on the fields it has
          life,     \* "absent" (not yet created), "there" or "gone"
          want,     \* want[t]: the change t asked for
          reply,    \* reply[t]: what t was told last
          exact     \* calls that read before they write do not overlap, and their reads succeed

regVars == <<reg, life, want, reply, exact>>

Nothing == [op |-> "none", give |-> [f \in {} |-> f], drop |-> {}]

RegInit == /\ want = [t \in Threads |-> Nothing]
           /\ reply = [t \in Threads |-> "none"]
           /\ life \in {"absent", "there"}
           /\ exact \in BOOLEAN

\* `new` has what the change r gives and lacks what it drops; the rest is as in `old`.
Changed(r, old, new) ==
    /\ \A f \in DOMAIN r.give : f \in DOMAIN new /\ new[f] = r.give[f]
    /\ DOMAIN new \cap r.drop = {}
    /\ exact => \A f \in (DOMAIN old \cup DOMAIN new) \ (DOMAIN r.give \cup r.drop) :
                   f \in DOMAIN old /\ f \in DOMAIN new /\ new[f] = old[f]

Ask(t) == /\ want[t].op = "none"
          /\ want' = [want EXCEPT ![t] = want'[t]]
          /\ want'[t].op \in {"set", "create", "erase"}
          /\ reply' = [reply EXCEPT ![t] = "none"]
          /\ UNCHANGED <<reg, life, exact>>

\* A second document made by a repeated creation is not this one: nothing happens to it.
Effect(t) ==
    LET r == want[t] IN
    \/ r.op = "set" /\ life = "there" /\ Changed(r, reg, reg') /\ UNCHANGED life
    \/ r.op = "create" /\ life = "absent" /\ reg' = r.give /\ life' = "there"
    \/ r.op = "create" /\ life # "absent" /\ UNCHANGED <<reg, life>>
    \/ r.op = "erase" /\ life = "there" /\ life' = "gone" /\ UNCHANGED reg

Answer(t, a) ==
    /\ want[t].op # "none"
    /\ \/ a \in {"ok", "raised"} /\ Effect(t)
       \/ a \in {"refused", "raised"} /\ UNCHANGED <<reg, life>>
    /\ want' = [want EXCEPT ![t] = Nothing]
    /\ reply' = [reply EXCEPT ![t] = a]
    /\ UNCHANGED exact

RegNext == \E t \in Threads : Ask(t) \/ \E a \in {"ok", "refused", "raised"} : Answer(t, a)

RegSpec == RegInit /\ [][RegNext]_regVars

=============================================================================
