------------------------------- MODULE Protocol -------------------------------
(***************************************************************************)
(* The framed protocol of src/protocol/protocol.cpp: what the encoder      *)
(* writes for each message type, what the decoder reads and refuses, the   *)
(* frame around a payload and the incremental FrameDecoder.                *)
(*                                                                         *)
(* The unit of the stream is a word: a u8, u32 or u64, a character of a    *)
(* string.  The decoder acts on whole frames only, so a cut inside a word  *)
(* is the cut before it.  A message is a function from field names to      *)
(* values: an optional is a sequence of at most one word, a list or a      *)
(* string a sequence.  std::nullopt is <<>>.                               *)
(***************************************************************************)
EXTENDS Integers, Sequences, SequencesExt, FiniteSets, StdMap

CONSTANTS
    MaxPayload,   \* protocol_max_payload()
    MaxRecords,   \* bound on allocations and on actions in a message, 100000
    MaxStrings    \* bound on a list of strings, 1000

ASSUME LimitAssumption ==
    MaxPayload \in Nat /\ MaxRecords \in Nat /\ MaxStrings \in Nat

(* enum class MsgType: the position is the value on the wire, from 0. *)
MsgType ==
    <<"HELLO", "REGISTER", "PUBLISH_RESOURCE", "PUBLISH_LAYOUT", "PUBLISH_ALLOCATION",
      "INVALIDATE_ALLOCATION", "QUERY_FRAGMENTATION", "QUERY_FIT", "CREATE_PLAN",
      "PLAN_RESULT", "APPROVE_PLAN", "BEGIN_ACTION", "ACTION_COMPLETE", "VERIFY",
      "CANCEL_PLAN", "ADVANCE_GENERATION", "REVALIDATE", "SAVE", "SHUTDOWN", "ERROR">>
MsgTypes == ToSet(MsgType)

-----------------------------------------------------------------------------
(* The last enumerator of each enum class that travels as a u8. *)
LastDomain       == 17
LastProvenance   == 6
LastMovability   == 9
LastAction       == 18
LastPlanState    == 18
LastImpact       == 3
LastFitOutcome   == 16
LastVerification == 6

(* Bug: valid_action does not know the last action. *)
ValidStale == [domain |-> 17, provenance |-> 6, movability |-> 9, action |-> 17,
               plan_state |-> 18, verification |-> 6, res_impact |-> 3]

(* valid_movability and its siblings: the greatest value the decoder takes. *)
Valid == [domain |-> 17, provenance |-> 6, movability |-> 9, action |-> 18,
          plan_state |-> 18, verification |-> 6, res_impact |-> 3]

(* How a field is written or read: a schema is a sequence of these.  A     *)
(* bool is a word, 0 or 1; max bounds an enum or the length of a list.     *)
Item(f, kind, max, of) == [f |-> f, kind |-> kind, max |-> max, of |-> of]
Word(f)            == Item(f, "WORD", 0, <<>>)
Enum(f, max)       == Item(f, "ENUM", max, <<>>)
Opt(f)             == Item(f, "OPT", 0, <<>>)
OptEnum(f, max)    == Item(f, "OPTENUM", max, <<>>)
Str(f)             == Item(f, "LIST", MaxPayload, <<>>)
List(f, max)       == Item(f, "LIST", max, <<>>)
Record(f, s)       == Item(f, "RECORD", 0, s)
Records(f, max, s) == Item(f, "RECORDS", max, s)
Words(fs)          == [i \in DOMAIN fs |-> Word(fs[i])]

-----------------------------------------------------------------------------
(* The structures, as the put_ and the get_ function of each lay them out. *)
PutAlloc ==
    Words(<<"id", "generation", "owner", "offset", "length">>)
    \o <<Enum("movability", LastMovability), Opt("reservation"), Word("policy_protected"),
         Opt("workload"), Enum("provenance", LastProvenance)>>

GetAlloc ==
    Words(<<"id", "generation", "owner", "offset", "length">>)
    \o <<Enum("movability", Valid.movability), Opt("reservation"), Word("policy_protected"),
         Opt("workload"), Enum("provenance", Valid.provenance)>>

PutDemand ==
    Words(<<"demand.id", "demand.generation", "demand.accelerator_count",
            "demand.per_device_memory", "demand.aggregate_memory",
            "demand.contiguous_memory", "demand.pinned_memory">>)
    \o <<Opt("demand.topology_group"), Opt("demand.locality_group"),
         Word("demand.requires_highspeed_comm_path"), Opt("demand.reservation_duration"),
         Word("demand.requires_model_residency"), Word("demand.requires_adapter_residency"),
         Opt("demand.elastic_min"), Opt("demand.elastic_max")>>

GetDemand ==
    Words(<<"demand.id", "demand.generation", "demand.accelerator_count",
            "demand.per_device_memory", "demand.aggregate_memory",
            "demand.contiguous_memory", "demand.pinned_memory">>)
    \o <<Opt("demand.topology_group"), Opt("demand.locality_group"),
         Word("demand.requires_highspeed_comm_path"), Opt("demand.reservation_duration"),
         Word("demand.requires_model_residency"), Word("demand.requires_adapter_residency"),
         Opt("demand.elastic_min"), Opt("demand.elastic_max")>>

PutResource ==
    Words(<<"resource.id", "resource.generation", "resource.pool", "resource.device",
            "resource.node", "resource.memory_domain">>)
    \o <<Opt("resource.topology_group"), Enum("resource.domain", LastDomain),
         Word("resource.capacity"), Enum("resource.provenance", LastProvenance)>>

GetResource ==
    Words(<<"resource.id", "resource.generation", "resource.pool", "resource.device",
            "resource.node", "resource.memory_domain">>)
    \o <<Opt("resource.topology_group"), Enum("resource.domain", Valid.domain),
         Word("resource.capacity"), Enum("resource.provenance", Valid.provenance)>>

(* A string of a list is one word; a list is written whatever its length. *)
PutAction ==
    <<Enum("kind", LastAction), Word("target_resource"), Word("affected_owner"),
      Opt("source_allocation"), Opt("destination"), Str("affected_allocations"),
      Word("required_authority"), Str("required_preconditions"), Str("proof_obligations")>>
    \o Words(<<"expected_capacity_recovered", "expected_fit_improvement", "cost", "risk",
               "disruption", "reversible", "state_preservation_required",
               "preemption_required">>)
    \o <<Enum("reservation_impact", LastImpact)>>

GetAction ==
    <<Enum("kind", Valid.action), Word("target_resource"), Word("affected_owner"),
      Opt("source_allocation"), Opt("destination"),
      List("affected_allocations", MaxRecords), Word("required_authority"),
      List("required_preconditions", MaxStrings), List("proof_obligations", MaxStrings)>>
    \o Words(<<"expected_capacity_recovered", "expected_fit_improvement", "cost", "risk",
               "disruption", "reversible", "state_preservation_required",
               "preemption_required">>)
    \o <<Enum("reservation_impact", Valid.res_impact)>>

PutPlan ==
    Words(<<"plan.id", "plan.generation", "plan.domain_id", "plan.based_on_snapshot",
            "plan.policy_generation", "plan.epoch">>)
    \o <<Records("plan.actions", MaxPayload, PutAction)>>
    \o Words(<<"plan.expected_capacity_recovered", "plan.expected_fit_improvement",
               "plan.benefit", "plan.cost", "plan.risk", "plan.disruption">>)
    \o <<Str("plan.factor_explanation"), Enum("plan.state", LastPlanState),
         OptEnum("plan.verification", LastVerification), Str("plan.precondition_failures")>>

GetPlan ==
    Words(<<"plan.id", "plan.generation", "plan.domain_id", "plan.based_on_snapshot",
            "plan.policy_generation", "plan.epoch">>)
    \o <<Records("plan.actions", MaxRecords, GetAction)>>
    \o Words(<<"plan.expected_capacity_recovered", "plan.expected_fit_improvement",
               "plan.benefit", "plan.cost", "plan.risk", "plan.disruption">>)
    \o <<List("plan.factor_explanation", MaxStrings), Enum("plan.state", Valid.plan_state),
         OptEnum("plan.verification", Valid.verification),
         List("plan.precondition_failures", MaxStrings)>>

-----------------------------------------------------------------------------
(* The authority fields every worker message starts with. *)
Authority == Words(<<"worker_id", "worker_boot", "epoch">>)

(* The switch of encode_payload, and the uniform footer. *)
PutFields(t) ==
    (CASE t = "REGISTER" -> Authority
       [] t = "PUBLISH_RESOURCE" -> Authority \o PutResource
       [] t = "PUBLISH_LAYOUT" -> Authority \o Words(<<"resource.id", "resource_gen">>)
                                  \o <<Records("allocations", MaxPayload, PutAlloc)>>
       [] t = "PUBLISH_ALLOCATION" ->
            Authority \o <<Word("resource.id"), Record("allocation", PutAlloc)>>
       [] t = "INVALIDATE_ALLOCATION" ->
            Authority \o Words(<<"allocation_id", "new_generation">>)
       [] t = "QUERY_FRAGMENTATION" -> Words(<<"epoch">>)
       [] t = "QUERY_FIT" -> Words(<<"epoch">>) \o PutDemand
       [] t = "CREATE_PLAN" -> Words(<<"epoch", "policy_gen">>) \o PutDemand
       [] t = "PLAN_RESULT" -> PutPlan
       [] t = "APPROVE_PLAN" -> Words(<<"plan_id", "plan_gen", "policy_gen">>)
       [] t = "BEGIN_ACTION" ->
            Words(<<"plan_id", "plan_gen", "action_index", "epoch", "policy_gen">>)
       [] t = "ACTION_COMPLETE" ->
            Words(<<"plan_id", "action_index", "action_ok", "new_generation">>)
       [] t \in {"VERIFY", "CANCEL_PLAN", "REVALIDATE"} -> Words(<<"plan_id", "plan_gen">>)
       [] t = "ADVANCE_GENERATION" -> Words(<<"generation_kind", "gen_value">>)
       [] t = "ERROR" -> <<Str("error")>>
       [] OTHER -> <<>>)
    \o <<Word("ok"), Enum("fit_outcome", LastFitOutcome),
         Enum("verification_outcome", LastVerification), Str("detail")>>

(* The switch of decode_payload, and the footer with its bounds. *)
GetFields(t) ==
    (CASE t = "REGISTER" -> Authority
       [] t = "PUBLISH_RESOURCE" -> Authority \o GetResource
       [] t = "PUBLISH_LAYOUT" -> Authority \o Words(<<"resource.id", "resource_gen">>)
                                  \o <<Records("allocations", MaxRecords, GetAlloc)>>
       [] t = "PUBLISH_ALLOCATION" ->
            Authority \o <<Word("resource.id"), Record("allocation", GetAlloc)>>
       [] t = "INVALIDATE_ALLOCATION" ->
            Authority \o Words(<<"allocation_id", "new_generation">>)
       [] t = "QUERY_FRAGMENTATION" -> Words(<<"epoch">>)
       [] t = "QUERY_FIT" -> Words(<<"epoch">>) \o GetDemand
       [] t = "CREATE_PLAN" -> Words(<<"epoch", "policy_gen">>) \o GetDemand
       [] t = "PLAN_RESULT" -> GetPlan
       [] t = "APPROVE_PLAN" -> Words(<<"plan_id", "plan_gen", "policy_gen">>)
       [] t = "BEGIN_ACTION" ->
            Words(<<"plan_id", "plan_gen", "action_index", "epoch", "policy_gen">>)
       [] t = "ACTION_COMPLETE" ->
            Words(<<"plan_id", "action_index", "action_ok", "new_generation">>)
       [] t \in {"VERIFY", "CANCEL_PLAN", "REVALIDATE"} -> Words(<<"plan_id", "plan_gen">>)
       [] t = "ADVANCE_GENERATION" -> Words(<<"generation_kind", "gen_value">>)
       [] t = "ERROR" -> <<Str("error")>>
       [] OTHER -> <<>>)
    \o <<Word("ok"), Enum("fit_outcome", 16), Enum("verification_outcome", 6), Str("detail")>>

-----------------------------------------------------------------------------
(***************************************************************************)
(* The values a struct Message can hold in the fields that are written:    *)
(* words, enumerators, optionals of one word and lists of any length.      *)
(***************************************************************************)
FieldValue(item, v) ==
    CASE item.kind = "WORD" -> v \in Nat
      [] item.kind = "ENUM" -> v \in 0 .. item.max
      [] item.kind = "OPT" -> v \in Seq(Nat) /\ Len(v) <= 1
      [] item.kind = "OPTENUM" -> v \in Seq(0 .. item.max) /\ Len(v) <= 1
      [] item.kind = "LIST" -> v \in Seq(Nat)

Names(schema) == {schema[i].f : i \in DOMAIN schema}

RecordValue(schema, rec) ==
    /\ rec = [f \in Names(schema) |-> rec[f]]
    /\ \A i \in DOMAIN schema : FieldValue(schema[i], rec[schema[i].f])

ItemValue(item, v) ==
    CASE item.kind = "RECORD" -> RecordValue(item.of, v)
      [] item.kind = "RECORDS" ->
            /\ Len(v) \in Nat /\ v = [i \in 1 .. Len(v) |-> v[i]]
            /\ \A i \in 1 .. Len(v) : RecordValue(item.of, v[i])
      [] OTHER -> FieldValue(item, v)

IsMessage(m) ==
    LET schema == PutFields(m["type"])
    IN  /\ m["type"] \in MsgTypes
        /\ m = [f \in Names(schema) \cup {"type"} |-> m[f]]
        /\ \A i \in DOMAIN schema : ItemValue(schema[i], m[schema[i].f])

-----------------------------------------------------------------------------
(* PWriter: the words of one field, of a record, of an item. *)
PutField(item, v) ==
    CASE item.kind \in {"WORD", "ENUM"} -> <<v>>
      [] item.kind \in {"OPT", "OPTENUM"} -> <<Len(v)>> \o v
      [] item.kind = "LIST" -> <<Len(v)>> \o v

PutRecord(schema, rec) ==
    FlattenSeq([i \in DOMAIN schema |-> PutField(schema[i], rec[schema[i].f])])

PutItem(item, v) ==
    CASE item.kind = "RECORD" -> PutRecord(item.of, v)
      [] item.kind = "RECORDS" ->
            <<Len(v)>> \o FlattenSeq([i \in DOMAIN v |-> PutRecord(item.of, v[i])])
      [] OTHER -> PutField(item, v)

(* encode_payload *)
EncodePayload(m) ==
    LET schema == PutFields(m["type"])
    IN  <<(CHOOSE i \in DOMAIN MsgType : MsgType[i] = m["type"]) - 1>>
        \o FlattenSeq([i \in DOMAIN schema |-> PutItem(schema[i], m[schema[i].f])])

-----------------------------------------------------------------------------
(***************************************************************************)
(* PReader.  A read past the end clears ok and nothing sets it again; a    *)
(* parse state is [ok, rest, rec]: the words left, the fields read.        *)
(***************************************************************************)
Refused(st) == [st EXCEPT !.ok = FALSE]

(* The words a field takes, given that its first word is there. *)
Width(item, ws) ==
    CASE item.kind \in {"WORD", "ENUM"} -> 1
      [] item.kind \in {"OPT", "OPTENUM"} -> IF ws[1] = 0 THEN 1 ELSE 2
      [] item.kind = "LIST" -> 1 + ws[1]

InRange(item, ws) ==
    CASE item.kind \in {"ENUM", "LIST"} -> ws[1] <= item.max
      [] item.kind = "OPTENUM" -> ws[1] = 0 \/ ws[2] <= item.max
      [] OTHER -> TRUE

GetField(st, item) ==
    LET ws == st.rest
        n  == Width(item, ws)
    IN  IF ~st.ok \/ ws = <<>> THEN Refused(st)
        ELSE IF Len(ws) < n \/ ~InRange(item, ws) THEN Refused(st)
        ELSE [ok   |-> TRUE,
              rest |-> SubSeq(ws, n + 1, Len(ws)),
              rec  |-> Assign(st.rec, item.f,
                              IF item.kind \in {"WORD", "ENUM"} THEN ws[1]
                              ELSE SubSeq(ws, 2, n))]

GetRecord(schema, ws) ==
    LET read[i \in 0 .. Len(schema)] ==
            IF i = 0 THEN [ok |-> TRUE, rest |-> ws, rec |-> EmptyMap]
            ELSE GetField(read[i - 1], schema[i])
    IN  read[Len(schema)]

(* The loop over the records of a list; rec is the list read so far. *)
GetNext(st, schema) ==
    LET got == GetRecord(schema, st.rest)
    IN  IF st.ok /\ got.ok THEN [got EXCEPT !.rec = Append(st.rec, @)] ELSE Refused(st)

GetRecords(schema, n, ws) ==
    LET read[i \in 0 .. n] ==
            IF i = 0 THEN [ok |-> TRUE, rest |-> ws, rec |-> <<>>]
            ELSE GetNext(read[i - 1], schema)
    IN  read[n]

GetItem(st, item) ==
    LET Read(got) == [got EXCEPT !.rec = Assign(st.rec, item.f, @)]
    IN  IF ~st.ok THEN st
        ELSE CASE item.kind = "RECORD" -> Read(GetRecord(item.of, st.rest))
               [] item.kind = "RECORDS" ->
                    IF st.rest = <<>> \/ Head(st.rest) > item.max THEN Refused(st)
                    ELSE Read(GetRecords(item.of, Head(st.rest), Tail(st.rest)))
               [] OTHER -> GetField(st, item)

(* The check at the end of get_demand. *)
ElasticOrdered(rec) ==
    "demand.elastic_min" \in DOMAIN rec
    /\ Len(rec["demand.elastic_min"]) = 1 /\ Len(rec["demand.elastic_max"]) = 1
    => rec["demand.elastic_min"][1] <= rec["demand.elastic_max"][1]

NoMsg == <<>>   \* std::nullopt of a message

(* The fields of a message, read one after the other. *)
GetMessage(schema, t, ws) ==
    LET read[i \in 0 .. Len(schema)] ==
            IF i = 0 THEN [ok |-> TRUE, rest |-> ws, rec |-> Assign(EmptyMap, "type", t)]
            ELSE GetItem(read[i - 1], schema[i])
    IN  read[Len(schema)]

(* decode_payload *)
DecodePayload(ws) ==
    IF ws = <<>> \/ Head(ws) > 19 THEN NoMsg
    ELSE LET t  == MsgType[Head(ws) + 1]
             st == GetMessage(GetFields(t), t, Tail(ws))
         IN  IF st.ok /\ st.rest = <<>> /\ ElasticOrdered(st.rec) THEN <<st.rec>> ELSE NoMsg

-----------------------------------------------------------------------------
(***************************************************************************)
(* Frames: [magic][version][len][payload][crc32].                          *)
(***************************************************************************)
Magic == 4604487
Version == 65536
Overhead == 4   \* three words of header and the checksum, 16 bytes

(* crc32, as a checksum of the words. *)
Crc(ws) == MapThenSumSet(LAMBDA i : (i * (ws[i] % 4093)) % 65521, DOMAIN ws) % 65521

(* frame_encode *)
FrameEncode(m) ==
    LET payload == EncodePayload(m)
        body    == <<Magic, Version, Len(payload)>> \o payload
    IN  Append(body, Crc(body))

(* frame_decode *)
FrameDecode(frame) ==
    LET n == Len(frame)
    IN  IF /\ n >= Overhead
           /\ frame[1] = Magic /\ frame[2] = Version
           /\ frame[3] <= MaxPayload /\ n = frame[3] + Overhead
           /\ frame[n] = Crc(SubSeq(frame, 1, n - 1))
        THEN DecodePayload(SubSeq(frame, 4, n - 1)) ELSE NoMsg

(* Bug: whatever follows a frame in the buffer is dropped with it. *)
FeedAndReset(buf, chunk) ==
    LET b == buf \o chunk
    IN  IF Len(b) < Overhead THEN [buf |-> b, msg |-> NoMsg]
        ELSE IF b[3] > MaxPayload THEN [buf |-> <<>>, msg |-> NoMsg]
        ELSE IF Len(b) < b[3] + Overhead THEN [buf |-> b, msg |-> NoMsg]
        ELSE [buf |-> <<>>, msg |-> FrameDecode(SubSeq(b, 1, b[3] + Overhead))]

(* Bug: the frame just decoded stays in the buffer. *)
FeedNoErase(buf, chunk) ==
    LET b == buf \o chunk
    IN  IF Len(b) < Overhead THEN [buf |-> b, msg |-> NoMsg]
        ELSE IF b[3] > MaxPayload THEN [buf |-> <<>>, msg |-> NoMsg]
        ELSE IF Len(b) < b[3] + Overhead THEN [buf |-> b, msg |-> NoMsg]
        ELSE [buf |-> b, msg |-> FrameDecode(SubSeq(b, 1, b[3] + Overhead))]

(* Bug: a frame is decoded only once there is more than the frame. *)
FeedLate(buf, chunk) ==
    LET b == buf \o chunk
        n == b[3] + Overhead
    IN  IF Len(b) < Overhead THEN [buf |-> b, msg |-> NoMsg]
        ELSE IF b[3] > MaxPayload THEN [buf |-> <<>>, msg |-> NoMsg]
        ELSE IF Len(b) <= n THEN [buf |-> b, msg |-> NoMsg]
        ELSE [buf |-> SubSeq(b, n + 1, Len(b)), msg |-> FrameDecode(SubSeq(b, 1, n))]

(* FrameDecoder::feed: at most one message per call; a frame that does not *)
(* decode is dropped, one that announces too long a payload takes with it  *)
(* all that is buffered.                                                   *)
Feed(buf, chunk) ==
    LET b == buf \o chunk
        n == b[3] + Overhead
    IN  IF Len(b) < Overhead THEN [buf |-> b, msg |-> NoMsg]
        ELSE IF b[3] > MaxPayload THEN [buf |-> <<>>, msg |-> NoMsg]
        ELSE IF Len(b) < n THEN [buf |-> b, msg |-> NoMsg]
        ELSE [buf |-> SubSeq(b, n + 1, Len(b)), msg |-> FrameDecode(SubSeq(b, 1, n))]
=============================================================================
