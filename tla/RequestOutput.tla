---------------------------- MODULE RequestOutput ----------------------------
(***************************************************************************)
(* How accepted paths become a request's output: the stop conditions       *)
(* (Req.check_finished) and the stream to the detokenizer                  *)
(* (stream_output_generation), for one request.                            *)
(*                                                                         *)
(* The synchronous worker appends the tokens of a path one by one and      *)
(* checks after each (_fill_requests).  With the overlap worker the        *)
(* scheduler appends the whole path and checks once, with the number of    *)
(* new tokens (process_batch_result_decode).                               *)
(*                                                                         *)
(* A token is an ordinary one ("tok"), an end-of-sequence or stop token    *)
(* ("eos"), one that completes a stop string ("str") or one outside the    *)
(* vocabulary ("nan").  With a grammar it may also complete the grammar    *)
(* without being a stop token ("end") or be rejected by it ("bad").        *)
(***************************************************************************)
EXTENDS Integers, Sequences

CONSTANTS
  MaxNew,          \* max_new_tokens
  MaxPath,         \* tokens of an accepted path with its bonus token
  StopStrMaxLen,   \* stop_str_max_len
  StreamInterval,  \* stream_interval
  ForceInterval    \* DEFAULT_FORCE_STREAM_INTERVAL

ASSUME OutputAssumption ==
  {MaxNew, MaxPath, StopStrMaxLen, StreamInterval, ForceInterval} \subseteq Nat \ {0}

VARIABLES
  spec_v2,  \* is_spec_v2: the overlap worker
  req,      \* output_ids, finished_reason, finished_len (0 for None), to_finish,
            \* finished_output, stream and the state of its grammar
  sent,     \* output_ids as sent to the detokenizer
  finals,   \* messages sent that carry a finish reason
  filling,  \* _fill_requests is in its loop over an accepted path
  left,     \* the tokens of that path it has not reached
  raised    \* accept_token raised in that loop: the scheduler process ends

vars == <<spec_v2, req, sent, finals, filling, left, raised>>

Token == {"tok", "eos", "str", "nan", "end", "bad"}
Finished(q) == q.reason # "none"
FirstIn(S) == CHOOSE i \in S : \A j \in S : i <= j

-----------------------------------------------------------------------------
(* Mutants. *)

\* finished_len counts the matched token twice.
MatchedLenPast(q, first) == first + 1

\* finished_len is the position of the matched token, counted from 0.
MatchedLenFromZero(q, first) == first - 1

\* The tail ends before the newest token.
TailIndicesBeforeNewest(q) == 1..(Len(q.out) - 1)

\* Everything is sent with every message.
UnsentAll(q) == q.out

\* A finished request is sent again when it is visited again.
FirstVisitAlways(q) == TRUE

\* The loop does not end at the token that finished the request.
GoesOnToTheEnd(q) == left # <<>>

\* Only the newest token is searched, however many are new.
NewIndicesNewest(q, n) == {Len(q.out)}

\* The grammar is not told of the accepted tokens.
AdvancedNever(q, tokens) == q

-----------------------------------------------------------------------------
(* Req.check_finished. *)

\* len(output_ids) >= max_new_tokens.
LimitReached(q) == Len(q.out) >= MaxNew

\* _check_token_based_finish and _check_vocab_boundary_finish: the first match
\* among the n new tokens.
NewIndices(q, n) == (Len(q.out) - n + 1)..Len(q.out)
Matches(q, n, kind) == {i \in NewIndices(q, n) : q.out[i] = kind}
MatchedLen(q, first) == first

\* tail_str: the last tokens, two more than the longest stop string has.
TailIndices(q) ==
  LET start == Len(q.out) - (StopStrMaxLen + 2) + 1
  IN  (IF start < 1 THEN 1 ELSE start)..Len(q.out)

\* The longest stop string: the whole of it has to be in the tail.
StringStart(i) == IF i < StopStrMaxLen THEN 1 ELSE i - StopStrMaxLen + 1
StopStrInTail(q) ==
  \E i \in DOMAIN q.out : q.out[i] = "str" /\ StringStart(i) \in TailIndices(q)

\* check_finished(n), its conditions in the order of the code.  A token outside
\* the vocabulary is replaced by an end-of-sequence token.  A completed grammar
\* and a stop string leave finished_len unset.
Checked(q, n) ==
  IF Finished(q) THEN q
  ELSE IF q.to_finish THEN [q EXCEPT !.reason = "abort", !.to_finish = FALSE]
  ELSE IF LimitReached(q) THEN [q EXCEPT !.reason = "length", !.len = MaxNew]
  ELSE IF q.grammar = "done" THEN [q EXCEPT !.reason = "grammar"]
  ELSE IF Matches(q, n, "eos") # {}
    THEN [q EXCEPT !.reason = "eos", !.len = MatchedLen(q, FirstIn(Matches(q, n, "eos")))]
  ELSE IF Matches(q, n, "nan") # {}
    THEN LET i == FirstIn(Matches(q, n, "nan"))
         IN  [q EXCEPT !.out[i] = "eos", !.reason = "nan", !.len = i]
  ELSE IF StopStrInTail(q) THEN [q EXCEPT !.reason = "str"]
  ELSE q

-----------------------------------------------------------------------------
(* grammar.accept_token. *)

\* The tokens about which the grammar decides; it stops at the first.
Judged(tokens) == {i \in DOMAIN tokens : tokens[i] \in {"end", "bad"}}
Verdict(q, tokens) ==
  IF q.grammar = "live" /\ Judged(tokens) # {} THEN tokens[FirstIn(Judged(tokens))] ELSE "tok"

\* accept_token of one token after the other: a completed grammar takes no more,
\* a rejected token raises ValueError.
Advanced(q, tokens) ==
  IF Verdict(q, tokens) = "end" THEN [q EXCEPT !.grammar = "done"] ELSE q
Rejected(q, tokens) == Verdict(q, tokens) = "bad"

\* The scheduler catches the error and aborts the request.
Accepted(q, tokens) ==
  IF Rejected(q, tokens) /\ ~Finished(q) THEN [q EXCEPT !.to_finish = TRUE]
  ELSE Advanced(q, tokens)

-----------------------------------------------------------------------------
(* stream_output_generation. *)

\* output_ids_through_stop, a slice.
ThroughStop(q) == IF q.len \in DOMAIN q.out THEN SubSeq(q.out, 1, q.len) ELSE q.out

\* finished_output, and finished_len of a request whose finish did not set it.
Closed(q) ==
  IF Finished(q)
    THEN [q EXCEPT !.finished_output = TRUE, !.len = IF @ = 0 THEN Len(q.out) ELSE @]
    ELSE q

\* output_ids_[send_token_offset:].
Unsent(q) == SubSeq(ThroughStop(q), Len(sent) + 1, Len(ThroughStop(q)))

\* finished_output of a finished request that was sent before.
FirstVisit(q) == ~q.finished_output

\* A finished request is sent once; another one when its length meets the interval
\* (for a streaming request unless its tail may be the beginning of a stop string,
\* held).
ShouldOutput(q, held) ==
  \/ Finished(q) /\ FirstVisit(q)
  \/ /\ ~Finished(q) /\ q.stream
     /\ Len(q.out) % StreamInterval = (IF StreamInterval > 1 THEN 1 ELSE 0)
     /\ ~held /\ ~StopStrInTail(q)
  \/ /\ ~Finished(q) /\ ~q.stream
     /\ Len(q.out) % ForceInterval = 0

Streamed(q, held) ==
  /\ req' = Closed(q)
  /\ sent' = IF ShouldOutput(q, held) THEN sent \o Unsent(Closed(q)) ELSE sent
  /\ finals' = IF ShouldOutput(q, held) /\ Finished(q) THEN finals + 1 ELSE finals

-----------------------------------------------------------------------------
(* Actions. *)

Init ==
  /\ spec_v2 \in BOOLEAN
  /\ \E grammar \in {"none", "live"}, stream \in BOOLEAN :
       req = [out |-> <<>>, reason |-> "none", len |-> 0, to_finish |-> FALSE,
              finished_output |-> FALSE, stream |-> stream, grammar |-> grammar]
  /\ sent = <<>> /\ finals = 0
  /\ filling = FALSE /\ left = <<>> /\ raised = FALSE

\* Only a grammar tells "end" and "bad" from an ordinary token.
Alphabet(q) == IF q.grammar = "none" THEN Token \ {"end", "bad"} ELSE Token
AcceptedPath == UNION {[1..n -> Alphabet(req)] : n \in 1..MaxPath}

\* abort_request marks a running request; it is finished with its next result.
Abort ==
  /\ ~filling
  /\ ~Finished(req) /\ req.out # <<>> /\ ~req.to_finish
  /\ req' = [req EXCEPT !.to_finish = TRUE]
  /\ UNCHANGED <<spec_v2, sent, finals, filling, left, raised>>

\* process_batch_result_prefill: the first token.
Prefill(token, held) ==
  /\ req.out = <<>>
  /\ Streamed(Accepted(Checked([req EXCEPT !.out = <<token>>], 1), <<token>>), held)
  /\ UNCHANGED <<spec_v2, filling, left, raised>>

\* _fill_requests takes the tokens of a path one by one ...
DecodeV1 ==
  /\ ~spec_v2 /\ ~filling
  /\ ~Finished(req) /\ req.out # <<>>
  /\ filling' = TRUE /\ left' \in AcceptedPath
  /\ UNCHANGED <<spec_v2, req, sent, finals, raised>>

\* ... up to the one that finishes the request.
GoesOn(q) == left # <<>> /\ ~Finished(q)

\* The grammar is told of a token after the check, outside any try block.
FillToken ==
  /\ filling /\ GoesOn(req)
  /\ LET token == Head(left)
         q == Checked([req EXCEPT !.out = Append(@, token)], 1)
     IN  /\ req' = IF Finished(q) THEN q ELSE Advanced(q, <<token>>)
         /\ raised' = (~Finished(q) /\ Rejected(q, <<token>>))
  /\ left' = Tail(left)
  /\ UNCHANGED <<spec_v2, sent, finals, filling>>

\* process_batch_result_decode checks once more what the worker left running.
EndFill(held) ==
  /\ filling /\ ~GoesOn(req)
  /\ Streamed(Checked(req, 1), held)
  /\ filling' = FALSE /\ left' = <<>>
  /\ UNCHANGED <<spec_v2, raised>>

\* With the overlap worker the same handler adds the path.
DecodeV2(held) ==
  /\ spec_v2
  /\ ~Finished(req) /\ req.out # <<>>
  /\ \E path \in AcceptedPath :
       Streamed(Accepted(Checked([req EXCEPT !.out = @ \o path], Len(path)), path), held)
  /\ UNCHANGED <<spec_v2, filling, left, raised>>

\* A request that was found finished while this pass was running is skipped, but
\* still among those streamed.
LateResult(held) ==
  /\ spec_v2 /\ Finished(req)
  /\ Streamed(req, held)
  /\ UNCHANGED <<spec_v2, filling, left, raised>>

Next ==
  /\ ~raised
  /\ \/ Abort
     \/ \E token \in Alphabet(req), held \in BOOLEAN : Prefill(token, held)
     \/ DecodeV1
     \/ FillToken
     \/ \E held \in BOOLEAN : EndFill(held)
     \/ \E held \in BOOLEAN : DecodeV2(held)
     \/ \E held \in BOOLEAN : LateResult(held)

Spec == Init /\ [][Next]_vars

-----------------------------------------------------------------------------
(* Properties. *)

Stopping(q) == {i \in DOMAIN q.out : q.out[i] \in {"eos", "str", "nan"} \/ i >= MaxNew}
Completes(q, i) == q.grammar # "none" /\ q.out[i] = "end"

\* Types, and what is handed out never exceeds max_new_tokens (check_finished,
\* schedule_batch.py:1044).
OutputTypeOK ==
  /\ req.reason \in {"none", "abort", "length", "grammar", "eos", "nan", "str"}
  /\ \A i \in DOMAIN req.out : req.out[i] \in Token
  /\ req.len \in 0..Len(req.out) /\ req.grammar \in {"none", "live", "done"}
  /\ {req.to_finish, req.finished_output, req.stream} \subseteq BOOLEAN
  /\ {spec_v2, filling, raised} \subseteq BOOLEAN /\ \A i \in DOMAIN left : left[i] \in Token
  /\ finals \in Nat
  /\ req.reason # "abort" => Len(ThroughStop(req)) <= MaxNew

\* The client gets the output in order, nothing twice and nothing skipped, and the
\* finished request is complete, whatever the stream interval held back before
\* (send_token_offset, scheduler_output_processor_mixin.py:948).  Its finish is
\* reported exactly once, although the overlap loop visits a finished request
\* again ("will try to output twice", line 899).
StreamedInOrder ==
  /\ Len(sent) <= Len(ThroughStop(req))
  /\ sent = SubSeq(ThroughStop(req), 1, Len(sent))
  /\ Finished(req) /\ ~filling => sent = ThroughStop(req)
  /\ finals = IF Finished(req) /\ ~filling THEN 1 ELSE 0

\* When the finish reason is a matched token, that token is the last one handed out:
\* the detokenizer cuts the last token off without looking at it ("We can always
\* assume the last token is the matched stop token", trim_matched_stop).  A stop
\* token is the first of its kind; a grammar that ended the request had been
\* completed by a token of the output.
MatchedTokenIsLast ==
  LET through == ThroughStop(req)
  IN  /\ req.reason = "eos" =>
           /\ through # <<>> /\ through[Len(through)] = "eos"
           /\ \A i \in 1..(Len(through) - 1) : through[i] # "eos"
      /\ req.reason = "grammar" =>
           /\ through = req.out
           /\ \E i \in DOMAIN req.out : Completes(req, i)

\* With the synchronous worker, what is handed out of a finished request ends with
\* the first token that meets a stop condition, wherever in a path that was ("Get
\* the output ids through the stop condition", schedule_batch.py:792).  A completed
\* grammar is noticed at the token that completes it when this is the last of its
\* path, and otherwise one token late: the worker checks before it tells the
\* grammar (specblock_info.py:1298-1303).
StopsAtFirst ==
  (~spec_v2 /\ Finished(req) /\ req.reason # "abort") =>
    LET n == Len(ThroughStop(req))
    IN  /\ n \in Stopping(req) \/ \E i \in {n - 1, n} \cap DOMAIN req.out : Completes(req, i)
        /\ \A i \in 1..(n - 1) : i \notin Stopping(req)
        /\ \A i \in 1..(n - 2) : ~Completes(req, i)

\* A request that goes on has met no stop condition that is passed over for good:
\* with the synchronous worker none at all, up to a grammar completed by its newest
\* token; with the overlap worker none but a stop string with more than two tokens
\* of its path behind it, which the tail is too short for (tail_str,
\* schedule_batch.py:938).
StopNoticed ==
  ~Finished(req) =>
    /\ \A i \in Stopping(req) : spec_v2 /\ req.out[i] = "str" /\ Len(req.out) - i > 2
    /\ ~spec_v2 => \A i \in 1..(Len(req.out) - 1) : ~Completes(req, i)

\* With several new tokens per check the order of the conditions decides what is
\* handed out: the length limit and a completed grammar come before the stop token,
\* so tokens behind it are delivered.  They are fewer than a path, and behind the
\* token that completed a grammar fewer than two paths (check_finished).
OvershootBounded ==
  Finished(req) /\ req.reason # "abort" =>
    LET n == Len(ThroughStop(req))
    IN  \A i \in 1..n : /\ req.out[i] \in {"eos", "nan"} => n - i < MaxPath
                        /\ Completes(req, i) => n - i < 2 * MaxPath

=============================================================================
