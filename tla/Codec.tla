------------------------------- MODULE Codec -------------------------------
(***************************************************************************)
(* The messages of dv::protocol as JSON (shared/src/protocol/message.cpp): *)
(* what serialize leaves on the wire of a message, and what parse makes of *)
(* it at the other end, where somebody of another version may have left a  *)
(* field out, written null or something else in it, or say what this one   *)
(* has no name for.                                                        *)
(*                                                                         *)
(* A message is its type and a record of its fields.  A table gives every  *)
(* field the method of FieldReader it is read with; serialize writes every *)
(* field of a message but those LeftOut, so one table serves both.  A text *)
(* is empty or not, and a list holds one element or none.                  *)
(***************************************************************************)
EXTENDS Integers, Sequences, TLC

CONSTANTS
  Unset,         \* a std::optional without a value
  Width          \* an int holds -Width .. Width - 1

CodecAssumption == Width \in Nat /\ Width > 1 /\ Unset \notin BOOLEAN

VARIABLES
  sent,          \* the message a sender meant
  wire,          \* what it is on the wire
  altered,       \* where another version wrote it otherwise, and how
  got            \* what parse answers

vars == <<sent, wire, altered, got>>
-----------------------------------------------------------------------------
(* The objects inside messages.                                            *)
RestrictionsFields ==
  [banned |-> "boolean", muted |-> "boolean", silenced |-> "boolean",
   screen_share_blocked |-> "boolean"]

UserFields ==
  [id |-> "string", display_name |-> "string", avatar |-> "optional_string",
   role |-> "role", restrictions |-> "restrictions"]

UserSummaryFields ==
  [user |-> "user", username |-> "string", created_at |-> "optional_integer",
   online |-> "boolean"]

RoomSummaryFields ==
  [id |-> "string", name |-> "optional_string", owner_id |-> "optional_string",
   persistent |-> "boolean", participant_count |-> "narrowed", capacity |-> "narrowed"]

ChatMessageFields ==
  [id |-> "optional_string", room_id |-> "string", user_id |-> "string",
   display_name |-> "optional_string", text |-> "string",
   timestamp_seconds |-> "optional_integer"]

NoticeFields ==
  [id |-> "optional_string", user_id |-> "optional_string",
   from_user_id |-> "optional_string", from_display_name |-> "optional_string",
   text |-> "string", created_at |-> "optional_integer",
   acknowledged_at |-> "optional_integer"]

AuditEntryFields ==
  [id |-> "optional_string", actor_id |-> "optional_string",
   actor_username |-> "optional_string", action |-> "string",
   target_id |-> "optional_string", room_id |-> "optional_string",
   detail |-> "optional_string", timestamp_seconds |-> "optional_integer"]

SessionSummaryFields ==
  [id |-> "optional_string", user_id |-> "string", ip |-> "optional_string",
   connected_at |-> "optional_integer", last_seen_at |-> "optional_integer",
   ended_at |-> "optional_integer"]

Objects ==
  [user |-> UserFields, restrictions |-> RestrictionsFields,
   chat_message |-> ChatMessageFields, notice |-> NoticeFields]

(* A list has one element at most, under this key.                         *)
Lists ==
  [chat_messages |-> [first |-> "chat_message"], users |-> [first |-> "user_summary"],
   rooms |-> [first |-> "room_summary"], audit_entries |-> [first |-> "audit_entry"],
   sessions |-> [first |-> "session_summary"]]

Elements ==
  [user_summary |-> UserSummaryFields, room_summary |-> RoomSummaryFields,
   audit_entry |-> AuditEntryFields, session_summary |-> SessionSummaryFields]
-----------------------------------------------------------------------------
(* The messages, by their wire names (kTypeMappings, parse).               *)
Nothing == [k \in {} |-> k]
RoomAndUser == [room_id |-> "string", user_id |-> "string"]
Description ==
  [room_id |-> "string", from_user_id |-> "string", to_user_id |-> "string", sdp |-> "string"]
MuteFields == [room_id |-> "string", user_id |-> "string", by_user_id |-> "optional_string"]
KickFields == [room_id |-> "string", user_id |-> "string", reason |-> "optional_string"]
Beat == [nonce |-> "optional_string"]

CallMessages ==
  [authenticate |-> [username |-> "string", password |-> "string"],
   authenticated |->
     [user |-> "user", token |-> "string", expires_in_seconds |-> "integer"],
   create_room |->
     [user_id |-> "string", room_name |-> "optional_string", persistent |-> "boolean",
      capacity |-> "size"],
   room_created |->
     [room_id |-> "string", room_name |-> "optional_string", capacity |-> "narrowed"],
   join_room |->
     [room_id |-> "string", user_id |-> "string", display_name |-> "optional_string"],
   leave_room |-> RoomAndUser,
   user_joined |-> [room_id |-> "string", user |-> "user"],
   user_left |-> RoomAndUser,
   offer |-> Description,
   answer |-> Description,
   ice_candidate |->
     [room_id |-> "string", from_user_id |-> "string", to_user_id |-> "string",
      candidate |-> "string", sdp_mid |-> "string", sdp_mline_index |-> "integer"],
   screen_share_started |->
     [room_id |-> "string", user_id |-> "string", has_audio |-> "boolean"],
   screen_share_stopped |-> RoomAndUser,
   mute |-> MuteFields]

TalkMessages ==
  [change_password |-> [current_password |-> "string", new_password |-> "string"],
   password_changed |-> Nothing,
   session_ended |-> [reason |-> "optional_string"],
   unmute |-> MuteFields,
   nudge |-> [room_id |-> "string", from_user_id |-> "string", to_user_id |-> "string"],
   chat_message |-> [message |-> "chat_message"],
   list_chat |-> [room_id |-> "string", limit |-> "narrowed"],
   chat_history |-> [room_id |-> "string", messages |-> "chat_messages"],
   send_notice |-> [user_id |-> "string", text |-> "string"],
   notice |-> [notice |-> "notice"],
   acknowledge_notice |-> [notice_id |-> "string"],
   error |-> [code |-> "string", message |-> "optional_string"],
   ping |-> Beat,
   pong |-> Beat]

AdministrationMessages ==
  [kick_user |-> KickFields,
   user_kicked |-> KickFields,
   force_mute |-> [room_id |-> "string", user_id |-> "string", muted |-> "require_boolean"],
   restrict_user |->
     [user_id |-> "string", banned |-> "maybe_boolean", muted |-> "maybe_boolean",
      silenced |-> "maybe_boolean", screen_share_blocked |-> "maybe_boolean",
      reason |-> "optional_string"],
   user_restricted |->
     [user_id |-> "string", restrictions |-> "restrictions",
      by_user_id |-> "optional_string", reason |-> "optional_string",
      room_id |-> "optional_string"],
   list_users |-> Nothing,
   user_list |-> [users |-> "users"],
   create_user |->
     [username |-> "string", password |-> "string", display_name |-> "optional_string",
      role |-> "role"],
   update_user |->
     [user_id |-> "string", role |-> "maybe_role", display_name |-> "maybe_string",
      password |-> "maybe_string"],
   delete_user |-> [user_id |-> "string"],
   list_rooms |-> Nothing,
   room_list |-> [rooms |-> "rooms"],
   delete_room |-> [room_id |-> "string"],
   update_room |-> [room_id |-> "string", capacity |-> "size"],
   list_audit |-> [limit |-> "narrowed", actor_id |-> "optional_string"],
   audit_list |-> [entries |-> "audit_entries"],
   list_sessions |-> [limit |-> "narrowed"],
   session_list |-> [sessions |-> "sessions"],
   end_session |-> [user_id |-> "string", reason |-> "optional_string"]]

Types ==
  DOMAIN CallMessages \cup DOMAIN TalkMessages \cup DOMAIN AdministrationMessages

FieldsOf(type) ==
  IF type \in DOMAIN CallMessages THEN CallMessages[type]
  ELSE IF type \in DOMAIN TalkMessages THEN TalkMessages[type]
  ELSE AdministrationMessages[type]

(* The fields of what is inside a field read that way.                     *)
Inside(kind) ==
  IF kind \in DOMAIN Objects THEN Objects[kind]
  ELSE IF kind \in DOMAIN Lists THEN Lists[kind] ELSE Elements[kind]
-----------------------------------------------------------------------------
Texts == {"string", "optional_string", "maybe_string", "role", "maybe_role"}
Booleans == {"require_boolean", "boolean", "maybe_boolean"}
Maybe == {"maybe_string", "maybe_boolean", "maybe_role"}
Compound == DOMAIN Objects \cup DOMAIN Lists \cup DOMAIN Elements

Json(is, of) == [is |-> is, of |-> of]

JsonType(kind) ==
  CASE kind \in Texts -> "string"
    [] kind \in Booleans -> "boolean"
    [] kind \in DOMAIN Lists -> "array"
    [] kind \in DOMAIN Objects \cup DOMAIN Elements -> "object"
    [] OTHER -> "integer"

LeftOutButFlags(kind, value) ==                                         \* a slip
  \/ kind \in Maybe \ {"maybe_boolean"} /\ value = Unset
  \/ kind = "size" /\ value = 0

(* "Only the flags that were actually asked about", and a size when asked. *)
LeftOut(kind, value) == (kind \in Maybe /\ value = Unset) \/ (kind = "size" /\ value = 0)

WireOf(value) == IF value = Unset THEN FALSE ELSE value

RECURSIVE Written(_, _)
Written(fields, value) ==
  [k \in {f \in DOMAIN value : ~LeftOut(fields[f], value[f])} |->
     Json(JsonType(fields[k]),
          IF fields[k] \in Compound THEN Written(Inside(fields[k]), value[k])
          ELSE WireOf(value[k]))]

serialize(message) ==
  Json("object", ("type" :> Json("string", message.type))
                    @@ Written(FieldsOf(message.type), message.of))
-----------------------------------------------------------------------------
(* An element of a list is never missing.                                  *)
Missing(object, k) == k \notin DOMAIN object \/ (object[k].is = "null" /\ k # "first")

Keys(fields, object) == IF "first" \in DOMAIN fields THEN DOMAIN object ELSE DOMAIN fields

Required == {"string", "require_boolean", "integer", "user", "chat_message", "notice"}
              \cup DOMAIN Lists

Fallback(kind) ==
  CASE kind \in Maybe -> Unset
    [] kind \in Booleans \ Maybe -> FALSE
    [] kind = "role" -> "user"
    [] kind \in Texts \ (Maybe \cup {"role"}) -> ""
    [] kind = "restrictions" -> [f \in DOMAIN RestrictionsFields |-> FALSE]
    [] OTHER -> 0

role_from_string(name) == IF name = "admin" THEN "admin" ELSE "user"

Narrowed(n) == ((n + Width) % (2 * Width)) - Width

Scalar(kind, of) ==
  IF kind \in {"role", "maybe_role"} THEN role_from_string(of)
  ELSE IF kind \in {"narrowed", "size", "integer"} THEN Narrowed(of) ELSE of

(* What is wrong with the fields of an object; of what is wrong inside one *)
(* of them, its own key is named.                                          *)
RECURSIVE Failures(_, _)
Failures(fields, object) ==
  UNION {IF Missing(object, k)
           THEN IF fields[k] \in Required THEN {[code |-> "missing_field", key |-> k]} ELSE {}
         ELSE IF object[k].is # JsonType(fields[k]) THEN {[code |-> "invalid_type", key |-> k]}
         ELSE IF fields[k] \in Compound
           THEN {[code |-> f.code, key |-> k] : f \in Failures(Inside(fields[k]), object[k].of)}
         ELSE {} : k \in Keys(fields, object)}

RECURSIVE Read(_, _)
Read(fields, object) ==
  [k \in Keys(fields, object) |->
     IF Missing(object, k) THEN Fallback(fields[k])
     ELSE IF fields[k] \in Compound THEN Read(Inside(fields[k]), object[k].of)
     ELSE Scalar(fields[k], object[k].of)]

Refused(failure) == [is |-> "refused", type |-> failure.code, of |-> failure.key]

parse(payload) ==
  LET root == payload.of
      refused(code, key) == Refused([code |-> code, key |-> key])
  IN IF payload.is # "object" THEN refused("invalid_json", "payload")
     ELSE IF "type" \notin DOMAIN root THEN refused("missing_field", "type")
     ELSE IF root.type.is # "string" THEN refused("invalid_type", "type")
     ELSE IF root.type.of \notin Types THEN refused("unknown_message_type", "type")
     ELSE LET fields == FieldsOf(root.type.of)
              failures == Failures(fields, root)
          IN IF failures # {} THEN Refused(CHOOSE f \in failures : TRUE)
             ELSE [is |-> "message", type |-> root.type.of, of |-> Read(fields, root)]
-----------------------------------------------------------------------------
(* What senders mean: everything blank or everything said, and any one     *)
(* field of that otherwise.                                                *)
RECURSIVE Said(_)
Said(kind) ==
  CASE kind \in {"role", "maybe_role"} -> "admin"
    [] kind \in Texts \ {"role", "maybe_role"} -> "x"
    [] kind \in Booleans -> TRUE
    [] kind \in Compound -> [k \in DOMAIN Inside(kind) |-> Said(Inside(kind)[k])]
    [] kind = "optional_integer" -> Width
    [] OTHER -> 1

RECURSIVE Blank(_)
Blank(kind) ==
  CASE kind \in DOMAIN Lists -> Nothing
    [] kind \in Compound \ DOMAIN Lists -> [k \in DOMAIN Inside(kind) |-> Blank(Inside(kind)[k])]
    [] OTHER -> Fallback(kind)

Others(kind) ==
  CASE kind \in {"maybe_string"} -> {""}
    [] kind = "maybe_role" -> {"user"}
    [] kind \in Booleans -> {FALSE}
    [] kind \in {"narrowed", "integer", "size"} -> {-1}
    [] OTHER -> {}

RECURSIVE Samples(_)
Samples(fields) ==
  LET all == {[k \in DOMAIN fields |-> Blank(fields[k])], [k \in DOMAIN fields |-> Said(fields[k])]}
      values(kind) ==
        IF kind \in Compound THEN Samples(Inside(kind)) \cup {Blank(kind)}
        ELSE {Blank(kind), Said(kind)} \cup Others(kind)
  IN all \cup UNION {{[v EXCEPT ![k] = other] : v \in all, other \in values(fields[k])} :
                      k \in DOMAIN fields}

NoMessage == [is |-> "nothing", type |-> "", of |-> Nothing]
AsIs == [path |-> <<>>, how |-> "as it is"]

Init == sent = NoMessage /\ wire = Json("nothing", Nothing) /\ altered = AsIs /\ got = NoMessage

Sends(type) ==
  /\ sent.is = "nothing"
  /\ \E value \in Samples(FieldsOf(type)) :
       sent' = [is |-> "message", type |-> type, of |-> value]
  /\ wire' = serialize(sent')
  /\ UNCHANGED <<altered, got>>

RECURSIVE Paths(_)
Paths(object) ==
  UNION {{<<k>>} \cup (IF object[k].is \in {"object", "array"}
                         THEN {<<k>> \o path : path \in Paths(object[k].of)} ELSE {}) :
         k \in DOMAIN object}

Otherwise(field, how) ==
  CASE how = "null" -> Json("null", 0)
    [] how = "mistyped" -> Json(IF field.is = "string" THEN "integer" ELSE "string", 0)
    [] how = "unknown" -> Json("string", "newer")

RECURSIVE AlteredAt(_, _, _)
AlteredAt(object, path, how) ==
  LET k == Head(path)
  IN IF Tail(path) # <<>> THEN [object EXCEPT ![k].of = AlteredAt(@, Tail(path), how)]
     ELSE IF how = "omitted" THEN [f \in DOMAIN object \ {k} |-> object[f]]
     ELSE [object EXCEPT ![k] = Otherwise(@, how)]

(* Another version, or anybody, writes one thing otherwise.                *)
WritesOtherwise(path, how) ==
  /\ sent.is = "message" /\ got.is = "nothing" /\ altered = AsIs
  /\ how = "unknown" => path[Len(path)] \in {"type", "role"}
  /\ altered' = [path |-> path, how |-> how]
  /\ wire' = [wire EXCEPT !.of = AlteredAt(@, path, how)]
  /\ UNCHANGED <<sent, got>>

Truncates ==
  /\ sent.is = "message" /\ got.is = "nothing" /\ altered = AsIs
  /\ altered' = [path |-> <<"payload">>, how |-> "truncated"] /\ wire' = Json("text", Nothing)
  /\ UNCHANGED <<sent, got>>

Parses ==
  /\ sent.is = "message" /\ got.is = "nothing" /\ got' = parse(wire)
  /\ UNCHANGED <<sent, wire, altered>>

Next ==
  \/ \E type \in Types : Sends(type)
  \/ \E path \in Paths(wire.of), how \in {"omitted", "null", "mistyped", "unknown"} :
       WritesOtherwise(path, how)
  \/ Truncates \/ Parses

Spec == Init /\ [][Next]_vars
-----------------------------------------------------------------------------
(* Every variable has its shape.                                           *)
TypeOK ==
  /\ sent.is \in {"nothing", "message"} /\ got.is \in {"nothing", "message", "refused"}
  /\ wire.is \in {"nothing", "object", "text"}
  /\ sent.is = "message" => sent.type \in Types

(* What a message says: a field nothing is said of is not among it.        *)
RECURSIVE Claims(_, _)
Claims(fields, value) ==
  UNION {IF fields[k] \in Compound
           THEN {<<k>> \o claim : claim \in Claims(Inside(fields[k]), value[k])}
         ELSE IF fields[k] \in Required \/ value[k] # Fallback(fields[k]) THEN {<<k, value[k]>>}
         ELSE {} : k \in DOMAIN value}

Demoted == sent.type = "update_user" /\ altered.path = <<"role">> /\ altered.how = "unknown"

(* A message arrives as it was meant; written otherwise by another version,*)
(* it says nothing its sender did not, or is refused for the field that is *)
(* wrong: nobody is banned, muted, promoted, "lifted" or resized by an     *)
(* omission (docs/06-protocol.md:136, message.cpp:127-129, 149-152).  A    *)
(* role of another version's invention demotes: see README.md.             *)
SaysNoMore ==
  /\ got.is = "message" =>
       /\ got.type = sent.type
       /\ altered = AsIs => got.of = sent.of
       /\ Claims(FieldsOf(sent.type), got.of) \subseteq Claims(FieldsOf(sent.type), sent.of)
            \/ Demoted
  /\ got.is = "refused" => altered # AsIs /\ got.of = Head(altered.path)
=============================================================================
