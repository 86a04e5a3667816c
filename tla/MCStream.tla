------------------------------- MODULE MCStream -------------------------------
(***************************************************************************)
(* Instance of Stream: every message type, with empty and with full lists  *)
(* and the first and the last enumerator of every enum; messages just      *)
(* beyond each limit; pairs of short messages, sent one by one or at once. *)
(***************************************************************************)
EXTENDS Stream

(* A value for each item: n elements in a list, n = 0 also for an empty    *)
(* optional and the first enumerator; words that tell the fields apart.    *)
Value(item, i, n) ==
    CASE item.kind = "WORD" -> i
      [] item.kind = "ENUM" -> IF n = 0 THEN 0 ELSE item.max
      [] item.kind = "OPT" -> IF n = 0 THEN <<>> ELSE <<i>>
      [] item.kind = "OPTENUM" -> IF n = 0 THEN <<>> ELSE <<item.max>>
      [] item.kind = "LIST" -> [k \in 1 .. n |-> k]

Index(schema, f) == CHOOSE i \in DOMAIN schema : schema[i].f = f

SampleRecord(schema, k, n) ==
    [f \in Names(schema) |-> Value(schema[Index(schema, f)], Index(schema, f) + k, n)]

SampleItem(item, i, n) ==
    CASE item.kind = "RECORD" -> SampleRecord(item.of, 0, n)
      [] item.kind = "RECORDS" -> [k \in 1 .. n |-> SampleRecord(item.of, k, n)]
      [] OTHER -> Value(item, i, n)

Sample(t, n) ==
    LET schema == PutFields(t)
    IN  [f \in Names(schema) \cup {"type"} |->
            IF f = "type" THEN t ELSE SampleItem(schema[Index(schema, f)], Index(schema, f), n)]

TooManyAllocations == [Sample("PUBLISH_LAYOUT", 0) EXCEPT !["allocations"] =
                          [k \in 1 .. (MaxRecords + 1) |-> SampleRecord(PutAlloc, k, 0)]]
TooManyActions == [Sample("PLAN_RESULT", 0) EXCEPT !["plan.actions"] =
                          [k \in 1 .. (MaxRecords + 1) |-> SampleRecord(PutAction, k, 0)]]
TooManyStrings == [Sample("PLAN_RESULT", 0) EXCEPT !["plan.actions"] =
                      <<[SampleRecord(PutAction, 1, 0) EXCEPT !["proof_obligations"] =
                             [k \in 1 .. (MaxStrings + 1) |-> k]]>>]
ElasticInverted == [Sample("QUERY_FIT", 2) EXCEPT !["demand.elastic_min"] = <<9>>,
                                                  !["demand.elastic_max"] = <<8>>]
LongDetail == [Sample("SAVE", 0) EXCEPT !["detail"] = [k \in 1 .. MaxPayload |-> 1]]

Singles == {Sample(t, n) : t \in MsgTypes, n \in {0, MaxRecords}}
              \cup {TooManyAllocations, TooManyStrings, ElasticInverted, LongDetail}

Short == {Sample("REVALIDATE", 1), Sample("SAVE", 0), Sample("HELLO", 0),
          Sample("PUBLISH_LAYOUT", 1)}

MCScripts == {<<m>> : m \in Singles} \cup (Short \X Short)
                \cup {<<a, Sample("SAVE", 0), Sample("REVALIDATE", 1)>> : a \in Short}
                \cup {<<TooManyAllocations, Sample("SAVE", 0)>>}

MCResponses == {Sample("ERROR", 0), Sample("QUERY_FRAGMENTATION", 2), Sample("QUERY_FIT", 0),
                Sample("VERIFY", 2), Sample("PLAN_RESULT", 2), TooManyActions,
                TooManyStrings}
=============================================================================
