------------------------------- MODULE Access -------------------------------
(***************************************************************************)
(* What a user may do with an object: the statements of the roles of its   *)
(* type (core/src/lib/Acl.ts, AclConditionResolver.ts), the filters they   *)
(* become (core/src/common/FilterQuery.ts), the Elasticsearch query a      *)
(* filter becomes (database/src/lib/ElasticsearchDb.ts), the routes that   *)
(* enforce them (api/src/lib/routes/Model.ts, Acl.ts, ModelParams.ts).     *)
(*                                                                         *)
(* One object of one model, which is module StoredObject; here its requests*)
(* are decided, and searches and subscriptions find it.                    *)
(*                                                                         *)
(* A query is a sequence of entries, one per key of the JavaScript object: *)
(* a field with an operator and a value, or a logical operator with its    *)
(* sub-queries.                                                            *)
(***************************************************************************)
EXTENDS StoredObject, SequencesExt

CONSTANTS RoleSets,      \* the roles a user type may have: each a sequence of roles, a role a sequence of statements
          ClientFilters  \* filters of searches and subscriptions; <<>> is none

VARIABLES
    roles,   \* the roles of the users' type, loaded at start
    sub,     \* the subscription: whose, with what filter, and the nodes stored with it; or absent
    answer   \* history: the last request or event, the object it was about and what was decided

vars == <<object, roles, sub, answer>>

Action == {"create", "get", "search", "count", "update", "delete", "subscribe"}

Int0(n) == [type |-> "int", v |-> n]
Ref(key) == [type |-> "ref", v |-> key]

-----------------------------------------------------------------------------
(* Filters *)

Field(f, op, x) == [key |-> "field", field |-> f, op |-> op, value |-> x]
Logical(key, conditions) == [key |-> key, conditions |-> conditions]

(* parseQuery: sub-queries are parsed and laid end to end. *)
RECURSIVE Parse(_)
Parse(query) ==
    [i \in DOMAIN query |->
        IF query[i].key = "field" THEN query[i]
        ELSE Logical(query[i].key,
                     FlattenSeq([j \in DOMAIN query[i].conditions |-> Parse(query[i].conditions[j])]))]

Has(x, y) == IF x.type = "array" THEN y.v \in ToSet(x.v) ELSE x.type = y.type /\ x.v = y.v

(* testFieldCondition; `in` carries a sequence of values. *)
Compare(op, x, y) ==
    CASE op = "eq" -> Has(x, y)
      [] op = "ne" -> ~Has(x, y)
      [] op = "in" -> \E i \in DOMAIN y : Has(x, y[i])
      [] op = "gt" -> x.type = "int" /\ x.v > y.v

TestField(node, obj) ==
    node.field \in DOMAIN obj /\ Compare(node.op, obj[node.field], node.value)

RECURSIVE TestNode(_, _)
TestNode(node, obj) ==
    CASE node.key = "field" -> TestField(node, obj)
      [] node.key = "$and"  -> \A i \in DOMAIN node.conditions : TestNode(node.conditions[i], obj)
      [] node.key = "$or"   -> \E i \in DOMAIN node.conditions : TestNode(node.conditions[i], obj)

Test(nodes, obj) == \A i \in DOMAIN nodes : TestNode(nodes[i], obj)

(* traverseNodes: every node with its depth, parents before children. *)
RECURSIVE Traverse(_, _)
Traverse(nodes, depth) ==
    FlattenSeq([i \in DOMAIN nodes |->
        <<[node |-> nodes[i], depth |-> depth]>> \o
        (IF nodes[i].key = "field" THEN <<>> ELSE Traverse(nodes[i].conditions, depth + 1))])

(* Mutant: a logical node stays on the stack while its siblings are read. *)
PoppedLate(walk, stack, depth) == SelectSeq(stack, LAMBDA i : walk[i].depth <= depth)

(* buildFilterQuery: the stack of enclosing logical nodes, as positions.   *)
Popped(walk, stack, depth) == SelectSeq(stack, LAMBDA i : walk[i].depth < depth)

(* Per position of the walk, the position of the bool query it is put in;  *)
(* 0 is the root.                                                          *)
Parents(walk) ==
    FoldLeftDomain(
        LAMBDA acc, i :
            LET stack == Popped(walk, acc.stack, walk[i].depth)
            IN  [parents |-> Append(acc.parents, IF stack = <<>> THEN 0 ELSE Last(stack)),
                 stack |-> IF walk[i].node.key = "field" THEN stack ELSE Append(stack, i)],
        [parents |-> <<>>, stack |-> <<>>], walk).parents

(* What Elasticsearch answers to a leaf: a field that is absent or null has*)
(* no term.                                                                *)
EsField(node, obj) ==
    IF node.op = "ne" THEN ~TestField([node EXCEPT !.op = "eq"], obj) ELSE TestField(node, obj)

RECURSIVE EsMatches(_, _, _, _)
EsMatches(walk, parents, i, obj) ==
    LET inner == {j \in DOMAIN walk : parents[j] = i}
    IN  IF i # 0 /\ walk[i].node.key = "field" THEN EsField(walk[i].node, obj)
        ELSE IF i # 0 /\ walk[i].node.key = "$or" THEN \E j \in inner : EsMatches(walk, parents, j, obj)
        ELSE \A j \in inner : EsMatches(walk, parents, j, obj)

Search(query, obj) ==
    LET walk == Traverse(Parse(query), 0)
    IN  EsMatches(walk, Parents(walk), 0, obj)

-----------------------------------------------------------------------------
(* Roles: a statement allows or denies actions, an allow perhaps under a   *)
(* condition, a sequence of operator, field and values.                    *)

Expand(token) == CASE token = "*"     -> Action
                   [] token = "read"  -> {"get", "search", "count", "subscribe"}
                   [] token = "write" -> {"create", "update", "delete"}
                   [] OTHER           -> {token}

(* compile: the action tokens of a statement are expanded.  (A condition of *)
(* a Deny is dropped: Evaluate asks for none.)                             *)
Covers(st, action) == \E t \in st.action : action \in Expand(t)

Context(user) == IF user = anonymous THEN [userType |-> Str(<<"t">>)]
                 ELSE [userType |-> Str(<<"t">>), userId |-> Str(<<user>>)]

(* resolveValue: a reference to a key the context lacks is dropped.        *)
Known(values, ctx) == SelectSeq(values, LAMBDA x : x.type # "ref" \/ x.v \in DOMAIN ctx)
Values(values, ctx) ==
    LET known == Known(values, ctx)
    IN  [i \in DOMAIN known |-> IF known[i].type = "ref" THEN ctx[known[i].v] ELSE known[i]]

FieldFilter(equal, field, values) ==
    IF equal
    THEN Field(field, IF Len(values) = 1 THEN "eq" ELSE "in", IF Len(values) = 1 THEN values[1] ELSE values)
    ELSE IF Len(values) = 1 THEN Field(field, "ne", values[1])
    ELSE Logical("$and", [i \in DOMAIN values |-> <<Field(field, "ne", values[i])>>])

(* Mutant: a condition that cannot be resolved restricts nothing. *)
NeverUnsatisfiable(condition, ctx) == FALSE

Unsatisfiable(condition, ctx) ==
    \E i \in DOMAIN condition : Values(condition[i].values, ctx) = <<>>

(* resolve of a condition that can be satisfied: one query. *)
Resolved(condition, ctx) ==
    LET filters == [i \in DOMAIN condition |->
                       FieldFilter(condition[i].equal, condition[i].field, Values(condition[i].values, ctx))]
    IN  IF Len(filters) = 1 THEN <<filters[1]>>
        ELSE <<Logical("$and", [i \in DOMAIN filters |-> <<filters[i]>>])>>

AnyOf(constraints) == IF Len(constraints) = 1 THEN constraints[1] ELSE <<Logical("$or", constraints)>>

Verdict(decision, constraint) == [decision |-> decision, constraint |-> constraint]

Evaluate(role, action, ctx) ==
    LET matching == SelectSeq(role, LAMBDA st : Covers(st, action))
        conditional == SelectSeq(matching, LAMBDA st : /\ st.condition # <<>>
                                                       /\ ~Unsatisfiable(st.condition, ctx))
    IN  IF \E i \in DOMAIN matching : ~matching[i].allow THEN Verdict("deny", <<>>)
        ELSE IF \E i \in DOMAIN matching : matching[i].condition = <<>> THEN Verdict("allow", <<>>)
        ELSE IF conditional = <<>> THEN Verdict("neutral", <<>>)
        ELSE Verdict("allow", AnyOf([i \in DOMAIN conditional |-> Resolved(conditional[i].condition, ctx)]))

(* NexxusAclManager.resolve over the roles of the user's type; the empty   *)
(* query is no constraint.                                                 *)
Authorize(user, action) ==
    LET verdicts == [i \in DOMAIN roles |-> Evaluate(roles[i], action, Context(user))]
        allows == SelectSeq(verdicts, LAMBDA v : v.decision = "allow")
    IN  IF (\E i \in DOMAIN verdicts : verdicts[i].decision = "deny") \/ allows = <<>>
        THEN Verdict("deny", <<>>)
        ELSE IF \E i \in DOMAIN allows : allows[i].constraint = <<>> THEN Verdict("allow", <<>>)
        ELSE Verdict("allow", AnyOf([i \in DOMAIN allows |-> allows[i].constraint]))

(* authorize, then enforceRowConstraint on an object that was loaded: with *)
(* no constraint nothing is loaded, and an object that is not there fails. *)
Passes(user, action, obj) ==
    LET verdict == Authorize(user, action)
    IN  /\ verdict.decision = "allow"
        /\ verdict.constraint # <<>> => obj # absent /\ Test(Parse(verdict.constraint), obj)

(* toDatabaseFilter and subscriptionFilter: the client's filter and the    *)
(* constraint.                                                             *)
Combined(client, constraint) ==
    IF constraint = <<>> THEN client
    ELSE IF client = <<>> THEN constraint
    ELSE <<Logical("$and", <<client, constraint>>)>>

-----------------------------------------------------------------------------
(* Requests *)

Init ==
    /\ roles \in RoleSets
    /\ ObjectInit
    /\ sub = absent /\ answer = absent

Decided(op, user, client, obj, ok) ==
    answer' = [op |-> op, user |-> user, client |-> client, obj |-> obj, ok |-> ok]

CreateModel(user, body) ==
    LET obj == Owned(user, body)
        granted == Passes(user, "create", obj)
    IN  /\ CreateObject(user, body, granted)
        /\ Decided("create", user, <<>>, obj, granted)
        /\ UNCHANGED <<roles, sub>>

(* updateModel: the stored object is checked, not what the patch makes of it. *)
UpdateModel(user, p) ==
    LET granted == Passes(user, "update", row)
    IN  /\ UpdateObject(p, granted)
        /\ Decided("update", user, <<>>, row, granted)
        /\ UNCHANGED <<roles, sub>>

DeleteModel(user) ==
    LET granted == Passes(user, "delete", row)
    IN  /\ DeleteObject(granted)
        /\ Decided("delete", user, <<>>, row, granted)
        /\ UNCHANGED <<roles, sub>>

GetModel(user) ==
    /\ row # absent
    /\ Decided("get", user, <<>>, row, Passes(user, "get", row))
    /\ UNCHANGED <<object, roles, sub>>

SearchModel(user, client) ==
    /\ row # absent
    /\ LET verdict == Authorize(user, "search")
       IN  Decided("search", user, client, row,
                   /\ verdict.decision = "allow"
                   /\ Search(Combined(client, verdict.constraint), row))
    /\ UNCHANGED <<object, roles, sub>>

(* The roles decide whether a user may count; what is counted is only      *)
(* narrowed by the client's filter.                                        *)
CountModel(user, client) ==
    /\ row # absent
    /\ Decided("count", user, client, row,
               Authorize(user, "count").decision = "allow" /\ Search(client, row))
    /\ UNCHANGED <<object, roles, sub>>

Subscribe(user, client) ==
    /\ sub = absent
    /\ LET verdict == Authorize(user, "subscribe")
       IN  /\ verdict.decision = "allow"
           /\ sub' = [user |-> user, client |-> client, nodes |-> Parse(Combined(client, verdict.constraint))]
    /\ UNCHANGED <<object, roles, answer>>

Unsubscribe ==
    /\ sub # absent
    /\ sub' = absent
    /\ UNCHANGED <<object, roles, answer>>

(* The Writer applies the next write; the transport manager matches what   *)
(* was stored against the subscription.                                    *)
Write ==
    /\ WriteNext
    /\ IF sub # absent /\ row' # absent
       THEN Decided("subscribe", sub.user, sub.client, row', Test(sub.nodes, row'))
       ELSE UNCHANGED answer
    /\ UNCHANGED <<roles, sub>>

Request(user) ==
    \/ \E body \in Bodies : CreateModel(user, body)
    \/ \E p \in PatchesSent : UpdateModel(user, p)
    \/ DeleteModel(user)
    \/ GetModel(user)
    \/ \E client \in ClientFilters :
          SearchModel(user, client) \/ CountModel(user, client) \/ Subscribe(user, client)

Next == (\E user \in Sender : Request(user)) \/ Unsubscribe \/ Write

Spec == Init /\ [][Next]_vars

-----------------------------------------------------------------------------
(* What the roles mean, said without filters.  Operators, fields and       *)
(* statements as the comments of AclStatement.ts and Acl.ts describe them. *)

Holds(part, user, obj) ==
    LET values == ToSet(Values(part.values, Context(user)))
    IN  values # {} /\ part.field \in DOMAIN obj /\ ((obj[part.field] \in values) <=> part.equal)

Granted(user, action, obj) ==
    LET statements == {st \in UNION {ToSet(roles[i]) : i \in DOMAIN roles} : Covers(st, action)}
    IN  /\ \A st \in statements : st.allow
        /\ \E st \in statements : \/ st.condition = <<>>
                                  \/ obj # absent /\ \A i \in DOMAIN st.condition : Holds(st.condition[i], user, obj)

(* Some object may be granted. *)
Allowed(user, action) ==
    LET statements == {st \in UNION {ToSet(roles[i]) : i \in DOMAIN roles} : Covers(st, action)}
    IN  /\ \A st \in statements : st.allow
        /\ \E st \in statements : \A i \in DOMAIN st.condition :
               ToSet(Values(st.condition[i].values, Context(user))) # {}

(* What a query means: all of its entries, and of "$or" one sub-query.     *)
RECURSIVE Means(_, _)
Means(query, obj) ==
    \A i \in DOMAIN query :
        CASE query[i].key = "field" -> TestField(query[i], obj)
          [] query[i].key = "$and"  -> \A j \in DOMAIN query[i].conditions : Means(query[i].conditions[j], obj)
          [] query[i].key = "$or"   -> \E j \in DOMAIN query[i].conditions : Means(query[i].conditions[j], obj)

(* The fields that statements and filters exclude values of. *)
Excluded(query) ==
    LET nodes == {walked.node : walked \in ToSet(Traverse(Parse(query), 0))}
    IN  {node.field : node \in {n \in nodes : n.key = "field" /\ n.op = "ne"}}
ExcludedByRoles == {part.field : part \in UNION {ToSet(st.condition) :
                       st \in {s \in UNION {ToSet(roles[i]) : i \in DOMAIN roles} :
                                   \E k \in DOMAIN s.condition : ~s.condition[k].equal}}}

-----------------------------------------------------------------------------

(* Of the requests on one object, those succeed that the roles of the      *)
(* user's type grant: the verdicts of the statements, their combination    *)
(* over statements and roles, the lowering of a condition to a filter and  *)
(* the filter's test make no difference to what the statements say.        *)
RequestsAreGranted ==
    [][answer' # absent /\ answer'.op \notin {"search", "count", "subscribe"} =>
          (answer'.ok <=> Granted(answer'.user, answer'.op, answer'.obj))]_answer

(* A search finds the object, and a subscription hears of it, exactly when *)
(* it passes the client's filter and the roles grant it: the query that    *)
(* Elasticsearch gets and the filter that is stored mean the same as the   *)
(* check of one object, and the client's filter only narrows.  A count has *)
(* it exactly when it passes the client's filter and the roles grant some  *)
(* object: their conditions do not narrow what is counted.  A field the    *)
(* query excludes values of has to be there: Elasticsearch finds objects   *)
(* without it, the test does not.                                          *)
FoundIsGranted ==
    [][/\ answer' # absent
       /\ answer'.op \in {"search", "count", "subscribe"}
       /\ answer'.op # "subscribe" => Excluded(answer'.client) \cup ExcludedByRoles \subseteq DOMAIN answer'.obj
       => (answer'.ok <=> /\ IF answer'.op = "count" THEN Allowed(answer'.user, "count")
                             ELSE Granted(answer'.user, answer'.op, answer'.obj)
                          /\ Means(answer'.client, answer'.obj))]_answer
=============================================================================
