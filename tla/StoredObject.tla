---------------------------- MODULE StoredObject ----------------------------
(***************************************************************************)
(* One object of one model: what the routes accept of it (api/src/lib/     *)
(* routes/Model.ts with core/src/common/JsonPatch.ts and SchemaValidator.ts)*)
(* and what becomes of it in the database, later and in the order of the   *)
(* Writer's queue (database/src/lib/ElasticsearchDb.ts).                   *)
(*                                                                         *)
(* Whether a request is granted is given here; how it is decided is module *)
(* Access, which extends this one.  How a write fails is module Writer.    *)
(*                                                                         *)
(* A value carries its type.  A string is a sequence of letters, an array  *)
(* a sequence of strings.                                                  *)
(***************************************************************************)
EXTENDS Integers, Sequences, FiniteSets

CONSTANTS User,        \* signed-in users, a user being its id
          anonymous,   \* whoever sends a token of a device without a user
          Letter,      \* what strings are made of, ids of users among it
          Bodies,      \* objects that are created, without the owner
          PatchesSent, \* patches: operation, field, value
          MaxWrites,   \* bound: writes accepted
          absent

ASSUME ObjectAssumption == anonymous \notin User /\ MaxWrites \in Nat

VARIABLES
    row,    \* the stored object, or absent
    queue,  \* the Writer's queue
    writes  \* how many writes were accepted

object == <<row, queue, writes>>

Sender == User \cup {anonymous}

(* The model's schema: `userId` is added where users sign in. *)
Schema == [userId |-> [type |-> "string", required |-> TRUE,  nullable |-> FALSE],
           kind   |-> [type |-> "string", required |-> TRUE,  nullable |-> FALSE],
           count  |-> [type |-> "int",    required |-> FALSE, nullable |-> TRUE],
           tags   |-> [type |-> "array",  required |-> FALSE, nullable |-> TRUE]]

Contents(type) ==
    CASE type = "int" -> Int [] type = "string" -> Seq(Letter) [] type = "array" -> Seq(Seq(Letter))

HasType(x, type) == x.type = type /\ x.v \in Contents(type)

Null == [type |-> "null", v |-> <<>>]
IsNull(x) == x.type = "null"

Str(s) == [type |-> "string", v |-> s]
Extend(obj, f, x) == [g \in DOMAIN obj \cup {f} |-> IF g = f THEN x ELSE obj[g]]

-----------------------------------------------------------------------------
(* Patches *)

AllowedTypes == [replace |-> {"string", "int", "array"}, append |-> {"array", "string"},
                 prepend |-> {"array", "string"}, incr |-> {"int"}, decr |-> {"int"}, remove |-> {"array"}]

ElementType(type) == IF type = "array" THEN "string" ELSE type

(* Mutant: the type of the value is not looked at. *)
ValidPatchOfAnything(p) ==
    p.field \in DOMAIN Schema /\ p.op \in DOMAIN AllowedTypes /\ Schema[p.field].type \in AllowedTypes[p.op]

(* validate: the field is declared, the operation is one and is allowed on *)
(* its type, the value has the type of the field or, for an array, of its  *)
(* elements.                                                               *)
ValidPatch(p) ==
    /\ p.field \in DOMAIN Schema
    /\ p.op \in DOMAIN AllowedTypes /\ Schema[p.field].type \in AllowedTypes[p.op]
    /\ HasType(p.value, IF p.op = "replace" THEN Schema[p.field].type ELSE ElementType(Schema[p.field].type))

(* The fields that creation asks for.  The owner is not among them: the    *)
(* route fills it in, if there is a user.                                  *)
Asked == {f \in DOMAIN Schema : Schema[f].required} \ {"userId"}

ValidBody(obj) ==
    /\ Asked \subseteq DOMAIN obj /\ DOMAIN obj \subseteq DOMAIN Schema
    /\ \A f \in DOMAIN obj : HasType(obj[f], Schema[f].type) \/ (Schema[f].nullable /\ IsNull(obj[f]))

(* The script of updateItems: a field that is not there, or is null, starts*)
(* empty, and nothing is removed from it.                                  *)
Empty(type) == IF type = "int" THEN 0 ELSE <<>>

Pieces(type, x) == IF type = "array" THEN <<x.v>> ELSE x.v

(* removeIf: the items other than x, each at its rank among them.          *)
Without(s, x) ==
    LET kept == {i \in DOMAIN s : s[i] # x}
    IN  [j \in 1..Cardinality(kept) |-> s[CHOOSE i \in kept : Cardinality({k \in kept : k <= i}) = j]]

HasValue(f, obj) == f \in DOMAIN obj /\ ~IsNull(obj[f])

Applied(p, obj) ==
    LET type == Schema[p.field].type
        old == IF HasValue(p.field, obj) THEN obj[p.field].v ELSE Empty(type)
        Becomes(w) == Extend(obj, p.field, [type |-> type, v |-> w])
    IN  CASE p.op = "replace" -> Extend(obj, p.field, p.value)
          [] p.op = "append"  -> Becomes(old \o Pieces(type, p.value))
          [] p.op = "prepend" -> Becomes(Pieces(type, p.value) \o old)
          [] p.op = "incr"    -> Becomes(old + p.value.v)
          [] p.op = "decr"    -> Becomes(old - p.value.v)
          [] p.op = "remove"  -> IF HasValue(p.field, obj) THEN Becomes(Without(old, p.value.v)) ELSE obj

-----------------------------------------------------------------------------
(* Requests, granted or refused, and the Writer                            *)

ObjectInit == row = absent /\ queue = <<>> /\ writes = 0

PublishWrite(granted, event) ==
    /\ writes < MaxWrites
    /\ queue' = IF granted THEN Append(queue, event) ELSE queue
    /\ writes' = IF granted THEN writes + 1 ELSE writes
    /\ UNCHANGED row

(* createModel: the object is validated with its owner. *)
Owned(user, body) == IF user = anonymous THEN body ELSE Extend(body, "userId", Str(<<user>>))

CreateObject(user, body, granted) ==
    /\ ValidBody(Owned(user, body))
    /\ PublishWrite(granted, [event |-> "created", data |-> Owned(user, body)])

UpdateObject(p, granted) == ValidPatch(p) /\ PublishWrite(granted, [event |-> "updated", data |-> p])

DeleteObject(granted) == PublishWrite(granted, [event |-> "deleted", data |-> absent])

(* An update or a delete of an object that is not there does nothing. *)
Written(event) == CASE event.event = "created" -> event.data
                    [] event.event = "updated" -> IF row = absent THEN absent ELSE Applied(event.data, row)
                    [] event.event = "deleted" -> absent

WriteNext ==
    /\ queue # <<>>
    /\ row' = Written(Head(queue))
    /\ queue' = Tail(queue)
    /\ UNCHANGED writes

ObjectNext ==
    \/ \E granted \in BOOLEAN :
          \/ \E user \in Sender, body \in Bodies : CreateObject(user, body, granted)
          \/ \E p \in PatchesSent : UpdateObject(p, granted)
          \/ DeleteObject(granted)
    \/ WriteNext

ObjectSpec == ObjectInit /\ [][ObjectNext]_object

-----------------------------------------------------------------------------

(* Whatever sequence of accepted writes is applied, in particular to       *)
(* fields that are not there or null, the stored object conforms to the    *)
(* schema: it has the fields that creation asked for, and each field, after*)
(* each operation, holds a value of its type, or null if it may            *)
(* (validateAgainstSchema, which only looks at what is sent, and the       *)
(* scripts of updateItems, which run later).                               *)
StoredConforms == row # absent => ValidBody(row)
=============================================================================
