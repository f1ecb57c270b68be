-------------------------------- MODULE Sets ---------------------------------
(***************************************************************************)
(* Sets (src/set.c): maps whose entries are keys, and the four operations  *)
(* that build a new set from two others, which may use other ways to       *)
(* compare and to own their keys.                                          *)
(*                                                                         *)
(* Of the map underneath this module uses what HashMap shows of it: a set  *)
(* holds at most one of the keys its policy takes for equal, and storing a *)
(* key replaces that one.  The order of the keys is left open, as the      *)
(* documentation does.                                                     *)
(***************************************************************************)
EXTENDS Integers, FiniteSets

CONSTANTS
    Handles,    \* pointers to sets that the caller keeps
    Elements,   \* key values
    Semantics,  \* hash, equal, key_valid and context of a configuration
    Class,      \* the keys that are equal to a key: a representative
    Valid,      \* the keys that key_valid accepts
    Bytes,      \* the semantics of lor_map_config_bytes
    Owners,     \* clone and drop of a configuration
    Borrowed    \* no clone and no drop

ASSUME SetsAssumption ==
    /\ Class \in [Semantics -> [Elements -> Elements]]
    /\ Valid \in [Semantics -> SUBSET Elements]
    /\ Bytes \in Semantics /\ Valid[Bytes] = Elements
    /\ IsFiniteSet(Handles) /\ IsFiniteSet(Elements)
    /\ Borrowed \notin Owners

VARIABLES
    sets,   \* the set of each handle
    calls,  \* the operation that is running, if any
    copies  \* copies of keys that were made and not dropped

setsVars == <<sets, calls, copies>>

Policies == [semantics : Semantics, owner : Owners \cup {Borrowed}]
\* A key as it is stored, and whose bytes it refers to.
Stored == [value : Elements, of : {"caller", "clone"}]
SetRecords == [initialized : BOOLEAN, policy : Policies, keys : SUBSET Stored]

BytesPolicy == [semantics |-> Bytes, owner |-> Borrowed]
\* What the functions read from NULL.
NoSet == [initialized |-> FALSE, policy |-> BytesPolicy, keys |-> {}]

Operations == {"union", "intersection", "difference", "symmetric difference"}
Calls == [op : Operations, a : Handles, b : Handles, result : Handles, policy : Policies,
          keys : SUBSET Stored, first : SUBSET Stored, second : SUBSET Stored]
----------------------------------------------------------------------------
(* Keys under a policy.                                                     *)

Same(p, k, l) == Class[p.semantics][k] = Class[p.semantics][l]
Accepts(p, k) == k \in Valid[p.semantics]
Owning(p) == p.owner # Borrowed

Contains(s, k) == Accepts(s.policy, k) /\ \E e \in s.keys : Same(s.policy, e.value, k)
Size(s) == Cardinality(s.keys)

\* lor_map_set_raw: an equal key is replaced; an owning set stores a copy.
Copied(p, e) == IF Owning(p) THEN [e EXCEPT !.of = "clone"] ELSE e
WithKey(p, keys, e) == {f \in keys : ~Same(p, f.value, e.value)} \cup {Copied(p, e)}

\* The copies that a set with these keys has to drop.
CopiesOf(p, keys) == IF Owning(p) THEN Cardinality(keys) ELSE 0
----------------------------------------------------------------------------
(* What the code decides about two operands.                                *)

\* lor_set__configs_compatible.
CompatiblePolicies(p, q) ==
    /\ p.semantics = q.semantics
    /\ Owning(p) /\ Owning(q) => p.owner = q.owner

\* lor_set__nonempty_configs_compatible.
Compatible(a, b) == a.keys = {} \/ b.keys = {} \/ CompatiblePolicies(a.policy, b.policy)

\* Mutant: an owning operand takes no precedence.
ResultPolicyFirst(a, b) ==
    IF a.keys # {} THEN a.policy
    ELSE IF b.keys # {} THEN b.policy
    ELSE IF a.initialized THEN a.policy ELSE b.policy

\* lor_set__result_config.
ResultPolicy(a, b) ==
    CASE Owning(a.policy) -> a.policy
      [] ~Owning(a.policy) /\ Owning(b.policy) -> b.policy
      [] ~Owning(a.policy) /\ ~Owning(b.policy) -> ResultPolicyFirst(a, b)

\* lor_set__operation: the keys that are added, from either operand.
FromFirst(op, a, b) ==
    CASE op = "union" -> a.keys
      [] op = "intersection" -> {e \in a.keys : Contains(b, e.value)}
      [] op \in {"difference", "symmetric difference"} ->
             {e \in a.keys : ~Contains(b, e.value)}

\* Mutant: the keys only the second operand has are forgotten.
FromSecondUnion(op, a, b) == IF op = "union" THEN b.keys ELSE {}
FromSecond(op, a, b) ==
    CASE op = "union" -> b.keys
      [] op = "symmetric difference" -> {e \in b.keys : ~Contains(a, e.value)}
      [] op \in {"intersection", "difference"} -> {}
----------------------------------------------------------------------------
(* The relations.                                                           *)

\* Mutant: the sizes have to differ.
IsSubsetStrict(a, b) ==
    Compatible(a, b) /\ Size(a) < Size(b) /\ \A e \in a.keys : Contains(b, e.value)
IsSubset(a, b) ==
    Compatible(a, b) /\ Size(a) <= Size(b) /\ \A e \in a.keys : Contains(b, e.value)

IsEqual(a, b) == Size(a) = Size(b) /\ IsSubset(a, b)
IsProperSubset(a, b) == Size(a) < Size(b) /\ IsSubset(a, b)

IsDisjoint(a, b) ==
    LET small == IF Size(a) <= Size(b) THEN a ELSE b
        large == IF Size(a) <= Size(b) THEN b ELSE a
    IN  Compatible(a, b) /\ \A e \in small.keys : ~Contains(large, e.value)
----------------------------------------------------------------------------
SetsInit ==
    /\ sets = [h \in Handles |-> NoSet]
    /\ calls = {}
    /\ copies = 0

\* lor_set_init_raw.
SetInit(h, p) ==
    /\ calls = {} /\ ~sets[h].initialized
    /\ sets' = [sets EXCEPT ![h] = [initialized |-> TRUE, policy |-> p, keys |-> {}]]
    /\ UNCHANGED <<calls, copies>>

\* lor_set_add_raw of a key of the caller; NULL becomes a set of bytes.
AddKey(h, k) ==
    LET p == sets[h].policy
        keys == WithKey(p, sets[h].keys, [value |-> k, of |-> "caller"])
    IN  /\ calls = {} /\ Accepts(p, k)
        /\ sets' = [sets EXCEPT ![h] = [initialized |-> TRUE, policy |-> p, keys |-> keys]]
        /\ copies' = copies + CopiesOf(p, keys) - CopiesOf(p, sets[h].keys)
        /\ UNCHANGED calls

\* lor_set_remove_raw.
RemoveKey(h, k) ==
    LET p == sets[h].policy
        keys == {e \in sets[h].keys : ~Same(p, e.value, k)}
    IN  /\ calls = {} /\ Contains(sets[h], k)
        /\ sets' = [sets EXCEPT ![h].keys = keys]
        /\ copies' = copies - (CopiesOf(p, sets[h].keys) - CopiesOf(p, keys))
        /\ UNCHANGED calls

\* lor_set_clear keeps the configuration, lor_set_deinit does not.
Drop(h, rest) ==
    /\ calls = {} /\ sets[h].initialized
    /\ sets' = [sets EXCEPT ![h] = rest]
    /\ copies' = copies - CopiesOf(sets[h].policy, sets[h].keys)
    /\ UNCHANGED calls
ClearSet(h) == Drop(h, [sets[h] EXCEPT !.keys = {}])
DeinitSet(h) == Drop(h, NoSet)
----------------------------------------------------------------------------
(* lor_set__operation, one step for each key that is added.  A result that  *)
(* cannot be allocated leaves everything as it is.                          *)

Begin(op, a, b, result) ==
    /\ calls = {} /\ ~sets[result].initialized
    /\ Compatible(sets[a], sets[b])
    /\ calls' = {[op |-> op, a |-> a, b |-> b, result |-> result,
                  policy |-> ResultPolicy(sets[a], sets[b]), keys |-> {},
                  first |-> FromFirst(op, sets[a], sets[b]),
                  second |-> FromSecond(op, sets[a], sets[b])]}
    /\ UNCHANGED <<sets, copies>>

\* The keys of which the next one is added: the first operand's come first.
Due(c) == IF c.first # {} THEN c.first ELSE c.second

AddDue(c, e) ==
    LET keys == WithKey(c.policy, c.keys, e)
    IN  /\ e \in Due(c) /\ Accepts(c.policy, e.value)
        /\ calls' = {IF c.first # {} THEN [c EXCEPT !.keys = keys, !.first = @ \ {e}]
                                     ELSE [c EXCEPT !.keys = keys, !.second = @ \ {e}]}
        /\ copies' = copies + CopiesOf(c.policy, keys) - CopiesOf(c.policy, c.keys)
        /\ UNCHANGED sets

\* Mutant: the result is not released.
Abandoned(c) == copies' = copies
\* lor_set_deinit of the unfinished result.
Released(c) == copies' = copies - CopiesOf(c.policy, c.keys)

\* A key is not valid under the result's policy, or cannot be copied.
AddFails(c, e) ==
    /\ e \in Due(c) /\ (Accepts(c.policy, e.value) => Owning(c.policy))
    /\ calls' = {}
    /\ Released(c)
    /\ UNCHANGED sets

Finish(c) ==
    /\ Due(c) = {}
    /\ sets' = [sets EXCEPT ![c.result] =
                   [initialized |-> TRUE, policy |-> c.policy, keys |-> c.keys]]
    /\ calls' = {}
    /\ UNCHANGED copies

SetsNext ==
    \/ \E h \in Handles : ClearSet(h) \/ DeinitSet(h)
    \/ \E h \in Handles, p \in Policies : SetInit(h, p)
    \/ \E h \in Handles, k \in Elements : AddKey(h, k) \/ RemoveKey(h, k)
    \/ \E op \in Operations, a, b, result \in Handles : Begin(op, a, b, result)
    \/ \E c \in calls : Finish(c) \/ \E e \in Due(c) : AddDue(c, e) \/ AddFails(c, e)

SetsSpec == SetsInit /\ [][SetsNext]_setsVars
----------------------------------------------------------------------------
\* No two keys that the policy takes for equal, and none that it refuses.
Distinct(p, keys) ==
    /\ \A e \in keys : Accepts(p, e.value)
    /\ \A e, f \in keys : Same(p, e.value, f.value) => e = f

\* The type invariant.
SetsTypeOK ==
    /\ sets \in [Handles -> SetRecords]
    /\ calls \subseteq Calls /\ Cardinality(calls) <= 1
    /\ copies \in Nat
    /\ \A h \in Handles : Distinct(sets[h].policy, sets[h].keys)
    /\ \A c \in calls : Distinct(c.policy, c.keys)

\* The copies among keys, those in all sets and those in the result being built.
CopiesIn(keys) == {e \in keys : e.of = "clone"}
InSets == {x \in Handles \X Stored : x[2] \in CopiesIn(sets[x[1]].keys)}
InCalls == {x \in calls \X Stored : x[2] \in CopiesIn(x[1].keys)}

\* Every copy of a key is in one set, which owns its keys and will drop it: none
\* is lost when an operation fails halfway, and no result without copies of its
\* own refers to those of an operand, which dangle once that is released. With
\* the types, this says that no set holds two keys that its policy takes for equal.
CopiesOwned ==
    /\ SetsTypeOK
    /\ copies = Cardinality(InSets) + Cardinality(InCalls)
    /\ \A h \in Handles : Owning(sets[h].policy) \/ CopiesIn(sets[h].keys) = {}

\* The keys that are in a set, equal ones included.
Members(s) == {k \in Elements : Contains(s, k)}

InResult(op, A, B) ==
    CASE op = "union" -> A \cup B
      [] op = "intersection" -> A \cap B
      [] op = "difference" -> A \ B
      [] op = "symmetric difference" -> (A \ B) \cup (B \ A)

\* The result is compared as the operands that have keys are.
InheritsSemantics(c) ==
    \A h \in {c.a, c.b} : sets[h].keys # {} => sets[h].policy.semantics = c.policy.semantics

\* An operation that succeeds yields the set it is named after, from operands
\* that may be the same one, and leaves all other sets as they are; one that
\* fails changes no set.
ResultExact ==
    [][\A c \in calls : calls' = {} =>
        /\ \A h \in Handles \ {c.result} : sets'[h] = sets[h]
        /\ sets'[c.result].initialized /\ InheritsSemantics(c) =>
               Members(sets'[c.result]) =
                   InResult(c.op, Members(sets[c.a]), Members(sets[c.b]))]_setsVars

\* The relations, computed from sizes and lookups in one direction, are those of
\* mathematics, and false of sets that have keys and compare them differently.
RelationsExact ==
    \A a, b \in {sets[h] : h \in Handles} :
        LET A == Members(a)
            B == Members(b)
        IN  /\ IsSubset(a, b) <=> Compatible(a, b) /\ A \subseteq B
            /\ IsEqual(a, b) <=> Compatible(a, b) /\ A = B
            /\ IsProperSubset(a, b) <=> Compatible(a, b) /\ A \subseteq B /\ A # B
            /\ IsDisjoint(a, b) <=> Compatible(a, b) /\ A \cap B = {}

\* The header says that a result inherits the policy of an operand that has keys:
\* keys which that operand tells apart stay apart.
PolicyOfNonEmpty == \A c \in calls : InheritsSemantics(c)
=============================================================================
