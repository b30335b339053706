------------------------------ MODULE MCAccess ------------------------------
(* Role sets with conditions of every shape, over an owner, another user   *)
(* and nobody; filters that nest, mix and follow logical operators.        *)
EXTENDS Access

CONSTANTS u, v

Users == Permutations(User)

\* The last answer decides nothing; the properties look at every step that gives one.
View == <<object, roles, sub>>

MCLetters == {"a", "b", "t"} \cup User

A == Str(<<"a">>)
B == Str(<<"b">>)
Allow(actions, condition) == [allow |-> TRUE, action |-> actions, condition |-> condition]
Deny(actions, condition) == [allow |-> FALSE, action |-> actions, condition |-> condition]
Part(equal, field, values) == [equal |-> equal, field |-> field, values |-> values]

Own == Part(TRUE, "userId", <<Ref("userId")>>)
NotOwn == Part(FALSE, "userId", <<Ref("userId")>>)
KindA == Part(TRUE, "kind", <<A>>)
KindAOrB == Part(TRUE, "kind", <<A, B>>)
KindNeither == Part(FALSE, "kind", <<A, Ref("userType"), B>>)

MCRoleSets == {
    << <<Allow({"*"}, <<>>)>> >>,
    << <<Allow({"read"}, <<>>), Allow({"write"}, <<Own, KindAOrB>>)>> >>,
    << <<Allow({"*"}, <<KindA>>), Allow({"update", "search", "subscribe"}, <<Own, KindNeither>>)>> >>,
    << <<Allow({"*"}, <<Own>>)>>, <<Allow({"*"}, <<KindA, NotOwn>>), Allow({"create"}, <<>>)>> >>,
    << <<Allow({"*"}, <<>>)>>, <<Deny({"delete", "update"}, <<Own>>)>> >>,
    << <<>>, <<Allow({"*"}, <<KindNeither>>)>>, <<Allow({"create"}, <<>>)>> >> }

MCBodies == { [kind |-> A],
              [kind |-> B, count |-> Null, tags |-> [type |-> "array", v |-> <<<<"a">>>>]],
              [count |-> Int0(1)] }

Patch(op, field, value) == [op |-> op, field |-> field, value |-> value]
MCPatches == {
    Patch("append", "tags", A), Patch("prepend", "tags", B), Patch("remove", "tags", A),
    Patch("incr", "count", Int0(1)), Patch("decr", "count", Int0(1)), Patch("append", "kind", B),
    Patch("replace", "kind", A), Patch("replace", "count", A), Patch("append", "count", Int0(1)) }

Or(x, y) == Logical("$or", <<<<x>>, <<y>>>>)
MCFilters == {
    <<>>, <<Field("kind", "eq", A)>>,
    <<Or(Field("kind", "eq", B), Field("tags", "eq", A)), Field("count", "gt", Int0(0))>>,
    <<Logical("$and", <<<<Or(Field("kind", "in", <<A, B>>), Field("count", "gt", Int0(0)))>>,
                         <<Or(Field("tags", "eq", A), Field("count", "ne", Int0(1)))>>,
                         <<Field("userId", "ne", A)>>>>)>>,
    <<Or(Logical("$and", <<<<Field("kind", "eq", A), Field("tags", "ne", A)>>>>), Field("count", "gt", Int0(0)))>> }
=============================================================================
