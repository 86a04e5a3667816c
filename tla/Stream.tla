-------------------------------- MODULE Stream --------------------------------
(***************************************************************************)
(* One connection between a TcpClient and its thread of TcpServer::serve:  *)
(* two byte streams that TCP cuts as it likes, with a FrameDecoder at each *)
(* end.  The thread keeps its decoder as long as the connection lives; a   *)
(* call of recv_frame makes a new one, so what it has buffered behind the  *)
(* reply it returns is gone.                                               *)
(*                                                                         *)
(* The coordinator is left open: any message of the reply type handle()    *)
(* gives may come back.  The client sends until `window' requests are      *)
(* unanswered and then receives; every tool of the repository uses 1.      *)
(***************************************************************************)
EXTENDS Protocol

CONSTANTS
    Windows,     \* numbers of requests a client leaves unanswered
    Scripts,     \* sequences of messages a client sends
    Responses    \* messages the coordinator may answer with

Requests == UNION {ToSet(s) : s \in Scripts}

Messages == Requests \cup Responses

ASSUME MessageAssumption ==
    /\ \A s \in Scripts : s \in Seq(Requests)
    /\ \A m \in Messages : IsMessage(m)

(* frame_encode of every message that is ever sent. *)
Wire == [m \in Messages |-> FrameEncode(m)]

VARIABLES
    window,    \* the client's choice of Windows
    script,    \* what the client has still to send
    sent,      \* what it has sent
    up,        \* words on their way to the server
    buf,       \* the buffer of the thread's FrameDecoder
    handled,   \* the messages given to Coordinator::handle
    posted,    \* its replies
    down,      \* words on their way to the client
    cbuf,      \* the buffer of the FrameDecoder of recv_frame
    answers    \* what the calls of recv_frame returned

vars == <<window, script, sent, up, buf, handled, posted, down, cbuf, answers>>
clientVars == <<window, script, sent, answers>>

Init ==
    /\ window \in Windows
    /\ script \in Scripts
    /\ sent = <<>> /\ up = <<>> /\ buf = <<>> /\ handled = <<>>
    /\ posted = <<>> /\ down = <<>> /\ cbuf = <<>> /\ answers = <<>>

-----------------------------------------------------------------------------
Unanswered == Len(sent) - Len(answers)

(* TcpClient::send_frame *)
SendFrame ==
    /\ script # <<>>
    /\ Unanswered < window
    /\ sent' = Append(sent, Head(script))
    /\ script' = Tail(script)
    /\ up' = up \o Wire[Head(script)]
    /\ UNCHANGED <<window, buf, handled, posted, down, cbuf, answers>>

(* The client is in recv_frame. *)
Receiving == Unanswered > 0 /\ (Unanswered = window \/ script = <<>>)

(* One turn of the loop of TcpClient::recv_frame. *)
ClientRecv(n) ==
    LET got == Feed(cbuf, SubSeq(down, 1, n))
    IN  /\ Receiving
        /\ down' = SubSeq(down, n + 1, Len(down))
        /\ answers' = answers \o got.msg
        /\ cbuf' = IF got.msg = NoMsg THEN got.buf ELSE <<>>
        /\ UNCHANGED <<window, script, sent, up, buf, handled, posted>>

(* The types handle() answers with: no message at all for three types. *)
ReplyTypes(t) ==
    CASE t \in {"HELLO", "SHUTDOWN", "ERROR"} -> {}
      [] t \in {"QUERY_FRAGMENTATION", "QUERY_FIT"} -> {t}
      [] t = "CREATE_PLAN" -> {"PLAN_RESULT", "ERROR"}
      [] t = "VERIFY" -> {"VERIFY", "ERROR"}
      [] OTHER -> {"ERROR"}

Replies(m) ==
    IF ReplyTypes(m["type"]) = {} THEN {<<>>}
    ELSE {<<r>> : r \in {q \in Responses : q["type"] \in ReplyTypes(m["type"])}}

(* One turn of the loop of a thread of serve(): recv, feed and, when feed  *)
(* returns a message, handle it and send the replies.                      *)
ServerRecv(n) ==
    LET got == Feed(buf, SubSeq(up, 1, n))
    IN  /\ up' = SubSeq(up, n + 1, Len(up))
        /\ buf' = got.buf
        /\ handled' = handled \o got.msg
        /\ \E rs \in IF got.msg = NoMsg THEN {<<>>} ELSE Replies(got.msg[1]) :
              /\ posted' = posted \o rs
              /\ down' = down \o FlattenSeq([i \in DOMAIN rs |-> Wire[rs[i]]])
        /\ UNCHANGED <<clientVars, cbuf>>

Next ==
    \/ SendFrame
    \/ \E n \in 1 .. Len(down) : ClientRecv(n)
    \/ \E n \in 1 .. Len(up) : ServerRecv(n)

(***************************************************************************)
(* recv returns once there is something to read: the thread of the         *)
(* connection and a client inside recv_frame do not stop.  Nothing obliges *)
(* a client to send.  A stream gets shorter in no other steps than those   *)
(* of its reader.                                                          *)
(***************************************************************************)
Fairness ==
    /\ WF_up(\E n \in 1 .. Len(up) : up' = SubSeq(up, n + 1, Len(up)))
    /\ WF_down(Receiving /\ \E n \in 1 .. Len(down) : down' = SubSeq(down, n + 1, Len(down)))

Spec == Init /\ [][Next]_vars /\ Fairness

-----------------------------------------------------------------------------
(***************************************************************************)
(* Correctness.                                                            *)
(***************************************************************************)
(* The fields of a message that Coordinator::handle reads. *)
Reads(t) ==
    CASE t = "REGISTER" -> {"worker_id", "worker_boot"}
      [] t = "PUBLISH_RESOURCE" ->
            {"worker_id", "worker_boot", "resource.id", "resource.generation",
             "resource.device", "resource.topology_group", "resource.capacity",
             "resource.provenance"}
      [] t = "PUBLISH_LAYOUT" ->
            {"worker_id", "worker_boot", "resource.id", "resource_gen", "allocations"}
      [] t = "PUBLISH_ALLOCATION" -> {"worker_id", "worker_boot", "resource.id", "allocation"}
      [] t = "INVALIDATE_ALLOCATION" -> {"worker_id", "worker_boot", "allocation_id"}
      [] t \in {"QUERY_FIT", "CREATE_PLAN"} ->
            {"demand.accelerator_count", "demand.per_device_memory",
             "demand.aggregate_memory", "demand.topology_group",
             "demand.reservation_duration"}
      [] t = "BEGIN_ACTION" -> {"plan_id", "plan_gen", "action_index"}
      [] t = "ACTION_COMPLETE" -> {"plan_id", "action_index", "action_ok"}
      [] t \in {"APPROVE_PLAN", "VERIFY", "CANCEL_PLAN", "REVALIDATE"} -> {"plan_id"}
      [] t = "ADVANCE_GENERATION" -> {"generation_kind"}
      [] t = "SAVE" -> {"detail"}
      [] OTHER -> {}

(* What a client reads of an answer. *)
Reports(t) ==
    {"ok", "fit_outcome", "verification_outcome", "detail"} \cup
    CASE t = "PLAN_RESULT" -> {"plan.id", "plan.generation", "plan.actions", "plan.state"}
      [] t = "ERROR" -> {"error"}
      [] OTHER -> {}

Same(got, m, fields) ==
    /\ got["type"] = m["type"]
    /\ \A f \in fields : f \in DOMAIN got /\ got[f] = m[f]

(***************************************************************************)
(* The limits a sender has to keep: nothing checks them before it sends.   *)
(***************************************************************************)
RecordLists == {"allocations", "plan.actions", "affected_allocations"}
StringLists == {"plan.factor_explanation", "plan.precondition_failures",
                "required_preconditions", "proof_obligations"}

ListsShort(rec) ==
    \A f \in DOMAIN rec :
        /\ f \in RecordLists => Len(rec[f]) <= MaxRecords
        /\ f \in StringLists => Len(rec[f]) <= MaxStrings

TooLong(m) == Wire[m][3] > MaxPayload
WithinLimits(m) ==
    /\ ~TooLong(m)
    /\ ListsShort(m)
    /\ \A f \in DOMAIN m \cap {"allocations", "plan.actions"} :
          \A i \in 1 .. Len(m[f]) : ListsShort(m[f][i])
    /\ ElasticOrdered(m)

(* What the decoder makes of the frame of a message. *)
Survives(m) ==
    ~TooLong(m) => FrameDecode(Wire[m]) = IF WithinLimits(m) THEN <<m>> ELSE NoMsg

(* Encoder and decoder agree: a message of any type that keeps the limits  *)
(* comes out of its frame with every field, also those neither handle()    *)
(* nor a client looks at; one that breaks them is refused as a whole, and  *)
(* none is truncated.                                                      *)
RoundTrip == \A m \in ToSet(sent) \cup ToSet(posted) : Survives(m)

(* Which of the first k messages the coordinator has to see. *)
Due(k) == {i \in 1 .. k : WithinLimits(sent[i])}

(* Every message within the limits reaches handle() once, in the order     *)
(* sent and with all the fields handle() reads, however recv cuts the      *)
(* stream and whatever is sent behind it before the answer; one beyond the *)
(* record limits is skipped as a whole.  The exception is a payload longer *)
(* than protocol_max_payload: feed() clears its buffer in the middle of a  *)
(* frame and nothing behind it can be relied on.                           *)
Delivered ==
    \/ \E i \in DOMAIN sent : TooLong(sent[i])
    \/ \E k \in 0 .. Len(sent) :
          LET rest == SubSeq(sent, k + 1, Len(sent))
          IN  /\ buf \o up = FlattenSeq([i \in DOMAIN rest |-> Wire[rest[i]]])
              /\ Len(handled) = Cardinality(Due(k))
              /\ \A i \in Due(k) :
                    Same(handled[Cardinality(Due(i))], sent[i], Reads(sent[i]["type"]))

(* A client that waits for each answer before it sends again gets, from    *)
(* each call of recv_frame, the reply to the request it has just made,     *)
(* complete: recv_frame's fresh decoder loses and repeats nothing.  Again  *)
(* the exception is a payload longer than protocol_max_payload.            *)
AnswersMatch ==
    \/ \E i \in DOMAIN sent : TooLong(sent[i])
    \/ \E i \in DOMAIN posted : TooLong(posted[i])
    \/ window = 1 =>
          /\ Len(posted) <= Len(sent)
          /\ Len(answers) <= Len(posted)
          /\ \A i \in DOMAIN posted : posted[i]["type"] \in ReplyTypes(sent[i]["type"])
          /\ \A i \in DOMAIN answers : Same(answers[i], posted[i], Reports(posted[i]["type"]))

(* Such a client is never left waiting, if its messages and the replies    *)
(* keep the limits and it waits only for messages handle() answers.  The   *)
(* conditions are needed: a layout with too many allocations, or a HELLO,  *)
(* blocks recv_frame for ever; and a second frame sent at once may sit     *)
(* complete in the thread's buffer until the client sends a third.         *)
Sound ==
    /\ \A i \in DOMAIN sent : WithinLimits(sent[i]) /\ ReplyTypes(sent[i]["type"]) # {}
    /\ \A i \in DOMAIN posted : WithinLimits(posted[i])

Answered ==
    (window = 1 /\ Receiving /\ Sound) ~> (Unanswered = 0 \/ ~Sound)
=============================================================================
