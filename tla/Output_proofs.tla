--------------------------- MODULE Output_proofs ----------------------------
(***************************************************************************)
(* Proofs about the way from a verify pass to the client: RequestOutput,   *)
(* for every limit, path length, stop-string tail and stream interval, for *)
(* both workers and with and without a grammar, and HostCopy with the overlap worker, for every       *)
(* batch, path length and stride.                                          *)
(*                                                                         *)
(* None of the properties of RequestOutput is inductive.  That nothing is  *)
(* sent twice or skipped needs that a cut never falls behind what was      *)
(* sent, and that needs that a request that goes on has neither a cut, nor *)
(* a stop token, nor as many tokens as the limit: a stop is then always    *)
(* found among the tokens that are new.                                    *)
(*                                                                         *)
(* HostCopy has two halves.  What is computed: the rows into which the     *)
(* flat list of ids is scattered begin with the paths (RowsRead).  When it *)
(* is read: only copies of the newest pass can be queued, and the mark of  *)
(* its result is behind them (CopyInv).                                    *)
(***************************************************************************)
EXTENDS RequestOutput, HostCopy, RowLists_proofs

Reason == {"none", "abort", "length", "grammar", "eos", "nan", "str"}
ReqRecord == [out : Seq(Token), reason : Reason, len : Nat, to_finish : BOOLEAN,
              finished_output : BOOLEAN, stream : BOOLEAN,
              grammar : {"none", "live", "done"}]

\* No stop token among the first k.
Clean(out, k) == \A i \in 1..k : out[i] \notin {"eos", "nan"}

\* A completed grammar was completed by one of the first k tokens.
DoneWithin(q, k) == q.grammar = "done" => \E i \in 1..k : q.out[i] = "end"

\* What holds of a request between any two steps.
ReqInv(q) ==
  /\ q \in ReqRecord
  /\ q.len <= Len(q.out)
  /\ ~Finished(q) => q.len = 0 /\ Len(q.out) < MaxNew /\ Clean(q.out, Len(q.out))
  /\ q.reason # "abort" => q.len <= MaxNew /\ (q.len = 0 => Len(q.out) < MaxNew)
  /\ q.reason = "eos" => /\ q.len > 0 /\ q.out[q.len] = "eos"
                         /\ \A i \in 1..(q.len - 1) : q.out[i] # "eos"
  /\ q.reason = "grammar" => q.len \in {0, Len(q.out)} /\ q.grammar = "done"
  /\ DoneWithin(q, Len(q.out))
  /\ q.finished_output => Finished(q)

\* s is a prefix of t, position by position.
Begins(s, t) == Len(s) <= Len(t) /\ \A i \in 1..Len(s) : s[i] = t[i]

\* The first tokens of c are those of an earlier output, and c is cut behind them.
CutBehind(c, k) == k <= Len(c.out) /\ (c.len # 0 => k <= c.len)

OutputInv ==
  /\ {spec_v2, filling, raised} \subseteq BOOLEAN
  /\ left \in Seq(Token)
  /\ filling => req.out # <<>> /\ ~spec_v2
  /\ req.out = <<>> => ~Finished(req)
  /\ sent \in Seq(Token)
  /\ ReqInv(req)
  /\ Begins(sent, req.out) /\ CutBehind(req, Len(sent))
  /\ Finished(req) /\ ~filling => sent = ThroughStop(req)
  /\ req.finished_output <=> Finished(req) /\ ~filling
  /\ finals = IF req.finished_output THEN 1 ELSE 0

-----------------------------------------------------------------------------
(* The slice through the stop. *)

\* The length and the tokens of output_ids_through_stop.
LEMMA ThroughStopFacts ==
  ASSUME NEW q \in ReqRecord, q.len <= Len(q.out)
  PROVE  /\ ThroughStop(q) \in Seq(Token)
         /\ Len(ThroughStop(q)) = IF q.len = 0 THEN Len(q.out) ELSE q.len
         /\ \A i \in 1..Len(ThroughStop(q)) : ThroughStop(q)[i] = q.out[i]
<1>1. q.out \in Seq(Token) /\ q.len \in Nat /\ Len(q.out) \in Nat /\ DOMAIN q.out = 1..Len(q.out)
  BY LenProperties DEF ReqRecord
<1>2. CASE q.len = 0
  <2>1. ThroughStop(q) = q.out
    BY <1>1, <1>2 DEF ThroughStop
  <2> QED BY <1>1, <1>2, <2>1
<1>3. CASE q.len # 0
  <2>1. ThroughStop(q) = SubSeq(q.out, 1, q.len)
    BY <1>1, <1>3 DEF ThroughStop
  <2>2. \A i \in 1..q.len : q.out[i] \in Token
    BY <1>1, ElementOfSeq
  <2>3. /\ SubSeq(q.out, 1, q.len) \in Seq(Token)
        /\ Len(SubSeq(q.out, 1, q.len)) = IF 1 <= q.len THEN q.len - 1 + 1 ELSE 0
        /\ \A i \in 1..(q.len - 1 + 1) : SubSeq(q.out, 1, q.len)[i] = q.out[1 + i - 1]
    BY <1>1, <2>2, SubSeqProperties
  <2> QED BY <1>1, <1>3, <2>1, <2>3
<1> QED BY <1>2, <1>3

\* The two ways to say that s is a prefix of t.
LEMMA BeginsIsSubSeq ==
  ASSUME NEW s \in Seq(Token), NEW t \in Seq(Token), Begins(s, t)
  PROVE  s = SubSeq(t, 1, Len(s))
<1>1. Len(s) \in Nat /\ Len(t) \in Nat /\ Len(s) <= Len(t)
  BY LenProperties DEF Begins
<1>2. \A i \in 1..Len(s) : t[i] \in Token
  BY <1>1, ElementOfSeq
<1>3. /\ SubSeq(t, 1, Len(s)) \in Seq(Token)
      /\ Len(SubSeq(t, 1, Len(s))) = IF 1 <= Len(s) THEN Len(s) - 1 + 1 ELSE 0
      /\ \A i \in 1..(Len(s) - 1 + 1) : SubSeq(t, 1, Len(s))[i] = t[1 + i - 1]
  BY <1>1, <1>2, SubSeqProperties
<1>4. Len(SubSeq(t, 1, Len(s))) = Len(s) /\ \A i \in 1..Len(s) : SubSeq(t, 1, Len(s))[i] = s[i]
  BY <1>1, <1>3 DEF Begins
<1> QED BY <1>3, <1>4, SeqEqual

\* What was sent and what was not make up the whole.
LEMMA SentAndUnsent ==
  ASSUME NEW s \in Seq(Token), NEW t \in Seq(Token), Begins(s, t)
  PROVE  s \o SubSeq(t, Len(s) + 1, Len(t)) = t
<1>1. s = SubSeq(t, 1, Len(s))
  BY BeginsIsSubSeq
<1>2. Len(s) \in 0..Len(t) /\ Len(t) \in Nat
  BY LenProperties DEF Begins
<1>3. 1 \in 1..(Len(t) + 1) /\ Len(s) \in (1 - 1)..Len(t) /\ Len(t) \in Len(s)..Len(t)
  BY <1>2
<1>4. SubSeq(t, 1, Len(s)) \o SubSeq(t, Len(s) + 1, Len(t)) = SubSeq(t, 1, Len(t))
  BY <1>3, ConcatAdjacentSubSeq
<1> QED BY <1>1, <1>4, SubSeqFull

-----------------------------------------------------------------------------
(* check_finished. *)

\* The first element of a set of positions.
LEMMA FirstInFacts ==
  ASSUME NEW S \in SUBSET Nat, S # {}
  PROVE  FirstIn(S) \in S /\ \A j \in S : FirstIn(S) <= j
<1>1. PICK i \in S : \A j \in S : i <= j
  BY LeastOf
<1> QED BY <1>1 DEF FirstIn

\* The new positions, and what a set of matches among them says.
LEMMA MatchFacts ==
  ASSUME NEW q \in ReqRecord, NEW n \in 1..Len(q.out), NEW k \in 0..Len(q.out),
         Len(q.out) - n <= k, NEW kind \in {"eos", "nan"}, Clean(q.out, k)
  PROVE  /\ Matches(q, n, kind) = {} => \A i \in 1..Len(q.out) : q.out[i] # kind
         /\ Matches(q, n, kind) # {} =>
              LET first == FirstIn(Matches(q, n, kind))
              IN  /\ first \in (k + 1)..Len(q.out) /\ q.out[first] = kind
                  /\ \A i \in 1..(first - 1) : q.out[i] # kind
<1> DEFINE M == Matches(q, n, kind)
           f == FirstIn(M)
<1>1. Len(q.out) \in Nat /\ n \in Nat /\ k \in Nat /\ k <= Len(q.out) /\ n <= Len(q.out)
  BY LenProperties DEF ReqRecord
<1>2. \A i \in 1..Len(q.out) : q.out[i] = kind => i > k
  BY <1>1 DEF Clean
<1>3. \A i \in 1..Len(q.out) : q.out[i] = kind => i \in M
  BY <1>1, <1>2 DEF Matches, NewIndices
<1>4. \A i \in M : i \in 1..Len(q.out) /\ q.out[i] = kind
  BY <1>1 DEF Matches, NewIndices
<1>5. M \in SUBSET Nat
  BY <1>1, <1>4
<1> HIDE DEF M
<1>6. M = {} => \A i \in 1..Len(q.out) : q.out[i] # kind
  BY <1>3
<1>7. ASSUME M # {}
      PROVE  /\ f \in (k + 1)..Len(q.out) /\ q.out[f] = kind
             /\ \A i \in 1..(f - 1) : q.out[i] # kind
  <2>1. f \in M /\ \A j \in M : f <= j
    BY <1>5, <1>7, FirstInFacts
  <2>2. f \in 1..Len(q.out) /\ q.out[f] = kind
    BY <1>4, <2>1
  <2>3. f > k
    BY <1>2, <2>2
  <2>4. ASSUME NEW i \in 1..(f - 1), q.out[i] = kind PROVE FALSE
    <3>1. i \in 1..Len(q.out)
      BY <1>1, <2>2
    <3>2. i \in M
      BY <1>3, <2>4, <3>1
    <3> QED BY <2>1, <2>2, <3>2
  <2> HIDE DEF f
  <2> QED BY <1>1, <2>2, <2>3, <2>4
<1> QED BY <1>6, <1>7 DEF M

\* A request that goes on after a check is as it was and met none of the conditions.
LEMMA GoesOnFacts ==
  ASSUME NEW q, NEW n, ~Finished(q), ~Finished(Checked(q, n)), q \in ReqRecord
  PROVE  /\ Checked(q, n) = q /\ ~q.to_finish /\ ~LimitReached(q) /\ q.grammar # "done"
         /\ Matches(q, n, "eos") = {} /\ Matches(q, n, "nan") = {} /\ ~StopStrInTail(q)
<1>1. \A r \in Reason \ {"none"} : Finished([q EXCEPT !.reason = r])
  BY DEF ReqRecord, Reason, Finished
<1>2. ~q.to_finish
  <2> SUFFICES ASSUME q.to_finish PROVE FALSE
    OBVIOUS
  <2>1. Checked(q, n) = [q EXCEPT !.reason = "abort", !.to_finish = FALSE]
    BY DEF Checked
  <2>2. Checked(q, n).reason = "abort"
    BY <2>1 DEF ReqRecord
  <2> QED BY <2>2 DEF Finished
<1>3. ~LimitReached(q)
  <2> SUFFICES ASSUME LimitReached(q) PROVE FALSE
    OBVIOUS
  <2>1. Checked(q, n) = [q EXCEPT !.reason = "length", !.len = MaxNew]
    BY <1>2 DEF Checked
  <2>2. Checked(q, n).reason = "length"
    BY <2>1 DEF ReqRecord
  <2> QED BY <2>2 DEF Finished
<1>4. q.grammar # "done"
  <2> SUFFICES ASSUME q.grammar = "done" PROVE FALSE
    OBVIOUS
  <2>1. Checked(q, n) = [q EXCEPT !.reason = "grammar"]
    BY <1>2, <1>3 DEF Checked
  <2> QED BY <1>1, <2>1 DEF Reason
<1>5. Matches(q, n, "eos") = {}
  <2> SUFFICES ASSUME Matches(q, n, "eos") # {} PROVE FALSE
    OBVIOUS
  <2> DEFINE e == MatchedLen(q, FirstIn(Matches(q, n, "eos")))
  <2>1. Checked(q, n) = [q EXCEPT !.reason = "eos", !.len = e]
    BY <1>2, <1>3, <1>4 DEF Checked
  <2> HIDE DEF e
  <2>2. Checked(q, n).reason = "eos"
    BY <2>1 DEF ReqRecord
  <2> QED BY <2>2 DEF Finished
<1>6. Matches(q, n, "nan") = {}
  <2> SUFFICES ASSUME Matches(q, n, "nan") # {} PROVE FALSE
    OBVIOUS
  <2> DEFINE u == FirstIn(Matches(q, n, "nan"))
  <2>1. Checked(q, n) = [q EXCEPT !.out[u] = "eos", !.reason = "nan", !.len = u]
    BY <1>2, <1>3, <1>4, <1>5 DEF Checked
  <2> HIDE DEF u
  <2>2. Checked(q, n).reason = "nan"
    BY <2>1 DEF ReqRecord
  <2> QED BY <2>2 DEF Finished
<1>7. ~StopStrInTail(q)
  <2> SUFFICES ASSUME StopStrInTail(q) PROVE FALSE
    OBVIOUS
  <2>1. Checked(q, n) = [q EXCEPT !.reason = "str"]
    BY <1>2, <1>3, <1>4, <1>5, <1>6 DEF Checked
  <2> QED BY <1>1, <2>1 DEF Reason
<1>8. Checked(q, n) = q
  BY <1>2, <1>3, <1>4, <1>5, <1>6, <1>7 DEF Checked
<1> QED BY <1>2, <1>3, <1>4, <1>5, <1>6, <1>7, <1>8

\* A check of a request whose first k tokens were checked before: the invariant of
\* the request holds again, and those tokens stay as they are and are not cut off.
\* Only a token outside the vocabulary is replaced.
LEMMA CheckedFacts ==
  ASSUME NEW q \in ReqRecord, ~Finished(q), q.len = 0, ~q.finished_output,
         NEW n \in 1..Len(q.out), NEW k \in 0..Len(q.out),
         Len(q.out) - n <= k, k < MaxNew, Clean(q.out, k), DoneWithin(q, k)
  PROVE  /\ ReqInv(Checked(q, n))
         /\ Len(Checked(q, n).out) = Len(q.out)
         /\ \A i \in 1..k : Checked(q, n).out[i] = q.out[i]
         /\ \A i \in 1..Len(q.out) : q.out[i] # "nan" => Checked(q, n).out[i] = q.out[i]
         /\ CutBehind(Checked(q, n), k)
         /\ Checked(q, n).grammar = q.grammar /\ ~Checked(q, n).finished_output
         /\ q.to_finish => Checked(q, n).reason = "abort"
         /\ DoneWithin(Checked(q, n), k)
<1> DEFINE c == Checked(q, n)
           e == FirstIn(Matches(q, n, "eos"))
           u == FirstIn(Matches(q, n, "nan"))
<1>1. /\ q.out \in Seq(Token) /\ Len(q.out) \in Nat /\ q.to_finish \in BOOLEAN
      /\ k \in Nat /\ k <= Len(q.out) /\ MaxNew \in Nat \ {0} /\ q.reason = "none"
      /\ DOMAIN q.out = 1..Len(q.out) /\ q.out \in [1..Len(q.out) -> Token]
  BY LenProperties, OutputAssumption DEF ReqRecord, Finished
<1>0. DoneWithin(q, Len(q.out))
  BY <1>1 DEF DoneWithin
<1>2. CASE q.to_finish
  <2>1. c = [q EXCEPT !.reason = "abort", !.to_finish = FALSE]
    BY <1>2 DEF Checked
  <2>2. /\ c \in ReqRecord /\ c.out = q.out /\ c.len = 0 /\ c.reason = "abort"
        /\ c.grammar = q.grammar /\ c.finished_output = FALSE
    BY <1>1, <2>1 DEF ReqRecord, Reason
  <2> HIDE DEF c
  <2>3. CutBehind(c, k) /\ DoneWithin(c, k) /\ DoneWithin(c, Len(c.out))
    BY <1>0, <2>2 DEF CutBehind, Finished, DoneWithin
  <2>4. ReqInv(c)
    BY <1>1, <2>2, <2>3 DEF ReqInv, Finished
  <2> QED BY <2>2, <2>3, <2>4 DEF c
<1>3. CASE ~q.to_finish /\ LimitReached(q)
  <2>1. c = [q EXCEPT !.reason = "length", !.len = MaxNew]
    BY <1>3 DEF Checked
  <2>2. /\ c \in ReqRecord /\ c.out = q.out /\ c.len = MaxNew /\ c.reason = "length"
        /\ c.grammar = q.grammar /\ c.finished_output = FALSE
    BY <1>1, <2>1 DEF ReqRecord, Reason
  <2> HIDE DEF c
  <2>3. ReqInv(c) /\ CutBehind(c, k) /\ DoneWithin(c, k)
    BY <1>0, <1>1, <1>3, <2>2 DEF ReqInv, CutBehind, Finished, LimitReached, DoneWithin
  <2> QED BY <1>3, <2>2, <2>3 DEF c
<1>4. CASE ~q.to_finish /\ ~LimitReached(q) /\ q.grammar = "done"
  <2>1. c = [q EXCEPT !.reason = "grammar"]
    BY <1>4 DEF Checked
  <2>2. /\ c \in ReqRecord /\ c.out = q.out /\ c.len = 0 /\ c.reason = "grammar"
        /\ c.grammar = q.grammar /\ c.finished_output = FALSE
    BY <1>1, <2>1 DEF ReqRecord, Reason
  <2> HIDE DEF c
  <2>3. Len(q.out) < MaxNew
    BY <1>1, <1>4 DEF LimitReached
  <2>4. ReqInv(c) /\ CutBehind(c, k) /\ DoneWithin(c, k)
    BY <1>0, <1>1, <1>4, <2>2, <2>3 DEF ReqInv, CutBehind, Finished, DoneWithin
  <2> QED BY <1>4, <2>2, <2>4 DEF c
<1>5. CASE /\ ~q.to_finish /\ ~LimitReached(q) /\ q.grammar # "done"
           /\ Matches(q, n, "eos") # {}
  <2>1. c = [q EXCEPT !.reason = "eos", !.len = e]
    BY <1>5 DEF Checked, MatchedLen
  <2>2. /\ e \in (k + 1)..Len(q.out) /\ q.out[e] = "eos"
        /\ \A i \in 1..(e - 1) : q.out[i] # "eos"
    BY <1>5, MatchFacts
  <2> HIDE DEF c, e
  <2>3. e \in Nat /\ k < e /\ e <= Len(q.out) /\ e < MaxNew
    BY <1>1, <1>5, <2>2 DEF LimitReached
  <2>4. /\ c \in ReqRecord /\ c.out = q.out /\ c.len = e /\ c.reason = "eos"
        /\ c.grammar = q.grammar /\ c.finished_output = FALSE
    BY <2>1, <2>3 DEF ReqRecord, Reason
  <2>5. ReqInv(c) /\ DoneWithin(c, k)
    BY <1>1, <1>5, <2>2, <2>3, <2>4 DEF ReqInv, Finished, DoneWithin
  <2>6. CutBehind(c, k)
    BY <1>1, <2>3, <2>4 DEF CutBehind
  <2> QED BY <1>5, <2>4, <2>5, <2>6 DEF c
<1>6. CASE /\ ~q.to_finish /\ ~LimitReached(q) /\ q.grammar # "done"
           /\ Matches(q, n, "eos") = {} /\ Matches(q, n, "nan") # {}
  <2>1. c = [q EXCEPT !.out[u] = "eos", !.reason = "nan", !.len = u]
    BY <1>6 DEF Checked
  <2>2. u \in (k + 1)..Len(q.out) /\ q.out[u] = "nan"
    BY <1>6, MatchFacts
  <2> HIDE DEF u
  <2>3. /\ [q.out EXCEPT ![u] = "eos"] \in Seq(Token)
        /\ Len([q.out EXCEPT ![u] = "eos"]) = Len(q.out)
        /\ \A i \in 1..k : [q.out EXCEPT ![u] = "eos"][i] = q.out[i]
        /\ \A i \in 1..Len(q.out) : q.out[i] # "nan" => [q.out EXCEPT ![u] = "eos"][i] = q.out[i]
    <3>1. u \in 1..Len(q.out) /\ "eos" \in Token
      BY <1>1, <2>2 DEF Token
    <3>2. /\ [q.out EXCEPT ![u] = "eos"] \in Seq(Token)
          /\ Len([q.out EXCEPT ![u] = "eos"]) = Len(q.out)
          /\ \A j \in 1..Len(q.out) :
               [q.out EXCEPT ![u] = "eos"][j] = IF j = u THEN "eos" ELSE q.out[j]
      BY <1>1, <3>1, ExceptSeq
    <3> QED BY <1>1, <2>2, <3>2
  <2> HIDE DEF c
  <2>4. u \in Nat /\ k < u /\ u <= Len(q.out) /\ u < MaxNew
    BY <1>1, <1>6, <2>2 DEF LimitReached
  <2>5. /\ c \in ReqRecord /\ c.out = [q.out EXCEPT ![u] = "eos"]
        /\ c.len = u /\ c.reason = "nan"
        /\ c.grammar = q.grammar /\ c.finished_output = FALSE
    BY <2>1, <2>3, <2>4 DEF ReqRecord, Reason
  <2>6. ReqInv(c) /\ DoneWithin(c, k)
    BY <1>1, <1>6, <2>3, <2>4, <2>5 DEF ReqInv, Finished, DoneWithin
  <2>7. CutBehind(c, k)
    BY <1>1, <2>3, <2>4, <2>5 DEF CutBehind
  <2> QED BY <1>6, <2>3, <2>5, <2>6, <2>7 DEF c
<1>7. CASE /\ ~q.to_finish /\ ~LimitReached(q) /\ q.grammar # "done"
           /\ Matches(q, n, "eos") = {} /\ Matches(q, n, "nan") = {}
  <2>1. c = IF StopStrInTail(q) THEN [q EXCEPT !.reason = "str"] ELSE q
    BY <1>7 DEF Checked
  <2>2. /\ c \in ReqRecord /\ c.out = q.out /\ c.len = 0 /\ c.reason \in {"none", "str"}
        /\ c.grammar = q.grammar /\ c.finished_output = FALSE
    BY <1>1, <2>1 DEF ReqRecord, Reason
  <2>3. Clean(q.out, Len(q.out))
    BY <1>7, MatchFacts DEF Clean
  <2> HIDE DEF c
  <2>4. Len(q.out) < MaxNew
    BY <1>1, <1>7 DEF LimitReached
  <2>5. ReqInv(c) /\ DoneWithin(c, k)
    BY <1>1, <1>7, <2>2, <2>3, <2>4 DEF ReqInv, DoneWithin
  <2>6. CutBehind(c, k)
    BY <1>1, <2>2 DEF CutBehind
  <2> QED BY <1>7, <2>2, <2>5, <2>6 DEF c
<1> QED BY <1>2, <1>3, <1>4, <1>5, <1>6, <1>7

-----------------------------------------------------------------------------
(* accept_token. *)

\* What the grammar says of some tokens: it is completed or rejects one only when
\* it was not completed before and meets such a token.
LEMMA VerdictFacts ==
  ASSUME NEW q, NEW tokens \in Seq(Token)
  PROVE  /\ Verdict(q, tokens) \in {"tok", "end", "bad"}
         /\ Verdict(q, tokens) # "tok" =>
              q.grammar = "live" /\ \E i \in 1..Len(tokens) : tokens[i] = Verdict(q, tokens)
         /\ Verdict(q, tokens) = "tok" =>
              q.grammar # "live" \/ \A i \in 1..Len(tokens) : tokens[i] \notin {"end", "bad"}
<1> DEFINE J == Judged(tokens)
<1>1. DOMAIN tokens = 1..Len(tokens) /\ Len(tokens) \in Nat
  BY LenProperties
<1>2. J \in SUBSET Nat /\ \A i \in J : i \in 1..Len(tokens) /\ tokens[i] \in {"end", "bad"}
  BY <1>1 DEF Judged
<1>3. J = {} => \A i \in 1..Len(tokens) : tokens[i] \notin {"end", "bad"}
  BY <1>1 DEF Judged
<1>4. J # {} => FirstIn(J) \in J
  BY <1>2, FirstInFacts
<1> HIDE DEF J
<1>5. CASE q.grammar = "live" /\ J # {}
  <2>1. Verdict(q, tokens) = tokens[FirstIn(J)]
    BY <1>5 DEF Verdict, J
  <2>2. FirstIn(J) \in 1..Len(tokens) /\ tokens[FirstIn(J)] \in {"end", "bad"}
    BY <1>2, <1>4, <1>5
  <2> QED BY <1>5, <2>1, <2>2
<1>6. CASE ~(q.grammar = "live" /\ J # {})
  <2>1. Verdict(q, tokens) = "tok"
    BY <1>6 DEF Verdict, J
  <2> QED BY <1>3, <1>6, <2>1
<1> QED BY <1>5, <1>6

\* Telling the grammar of tokens that are in the output changes nothing but the
\* state of the grammar and the mark of an abort.
LEMMA AcceptedFacts ==
  ASSUME NEW c, ReqInv(c), NEW tokens \in Seq(Token),
         \A i \in 1..Len(tokens) : tokens[i] = "end" => \E j \in 1..Len(c.out) : c.out[j] = "end",
         NEW a \in {Accepted(c, tokens), Advanced(c, tokens)}
  PROVE  /\ ReqInv(a) /\ a.out = c.out /\ a.reason = c.reason /\ a.len = c.len
         /\ a.finished_output = c.finished_output
<1>1. c \in ReqRecord
  BY DEF ReqInv
<1>2. \/ a = c
      \/ a = [c EXCEPT !.to_finish = TRUE]
      \/ Verdict(c, tokens) = "end" /\ a = [c EXCEPT !.grammar = "done"]
  BY DEF Accepted, Advanced
<1>3. /\ a \in ReqRecord /\ a.out = c.out /\ a.reason = c.reason /\ a.len = c.len
      /\ a.finished_output = c.finished_output
      /\ a.grammar # c.grammar => a.grammar = "done" /\ Verdict(c, tokens) = "end" /\ c.grammar = "live"
  BY <1>1, <1>2, VerdictFacts DEF ReqRecord
<1>4. DoneWithin(a, Len(a.out))
  <2>1. CASE a.grammar = c.grammar
    BY <1>3, <2>1 DEF ReqInv, DoneWithin
  <2>2. CASE a.grammar # c.grammar
    <3>1. \E i \in 1..Len(tokens) : tokens[i] = "end"
      BY <1>3, <2>2, VerdictFacts
    <3> QED BY <1>3, <3>1 DEF DoneWithin
  <2> QED BY <2>1, <2>2
<1>5. a.reason = "grammar" => a.grammar = "done"
  BY <1>3 DEF ReqInv
<1> QED BY <1>3, <1>4, <1>5 DEF ReqInv, Finished

-----------------------------------------------------------------------------
(* stream_output_generation. *)

\* A message leaves what was sent a prefix of the output up to its stop, and
\* completes it when the request is finished, which is reported once.
LEMMA StreamedFacts ==
  ASSUME NEW c, NEW held \in BOOLEAN, ReqInv(c), sent \in Seq(Token),
         Begins(sent, c.out), CutBehind(c, Len(sent)), Streamed(c, held),
         c.finished_output => sent = ThroughStop(c),
         finals = IF c.finished_output THEN 1 ELSE 0
  PROVE  /\ ReqInv(req') /\ sent' \in Seq(Token)
         /\ Begins(sent', req'.out) /\ CutBehind(req', Len(sent'))
         /\ Finished(req') => sent' = ThroughStop(req')
         /\ req'.out = c.out /\ (Finished(req') <=> Finished(c))
         /\ (req'.finished_output <=> Finished(req'))
         /\ finals' = IF req'.finished_output THEN 1 ELSE 0
<1> DEFINE d == Closed(c)
           T == ThroughStop(d)
<1>1. /\ req' = d /\ sent' = IF ShouldOutput(c, held) THEN sent \o Unsent(d) ELSE sent
      /\ finals' = IF ShouldOutput(c, held) /\ Finished(c) THEN finals + 1 ELSE finals
  BY DEF Streamed
<1>2. /\ c \in ReqRecord /\ c.out \in Seq(Token) /\ c.len \in Nat /\ Len(c.out) \in Nat
      /\ c.len <= Len(c.out) /\ Len(sent) \in Nat /\ c.finished_output \in BOOLEAN
      /\ c.finished_output => Finished(c)
  BY LenProperties DEF ReqInv, ReqRecord
<1>3. /\ d \in ReqRecord /\ d.out = c.out /\ d.reason = c.reason /\ d.grammar = c.grammar
      /\ d.len = IF Finished(c) /\ c.len = 0 THEN Len(c.out) ELSE c.len
      /\ (d.finished_output <=> Finished(c))
  <2>1. CASE Finished(c)
    <3>1. d = [c EXCEPT !.finished_output = TRUE, !.len = IF @ = 0 THEN Len(c.out) ELSE @]
      BY <2>1 DEF Closed
    <3> QED BY <1>2, <2>1, <3>1 DEF ReqRecord
  <2>2. CASE ~Finished(c)
    BY <1>2, <2>2 DEF Closed
  <2> QED BY <2>1, <2>2
<1> HIDE DEF d
<1>4. ReqInv(d)
  <2>1. CASE Finished(c) /\ c.len = 0
    <3>1. MaxNew \in Nat /\ d.len = Len(d.out) /\ d.reason # "eos" /\ Finished(d)
      BY <1>2, <1>3, <2>1, OutputAssumption DEF ReqInv, Finished
    <3>2. d.reason # "abort" => Len(d.out) < MaxNew
      BY <1>3, <2>1 DEF ReqInv
    <3> QED BY <1>2, <1>3, <3>1, <3>2 DEF ReqInv, DoneWithin
  <2>2. CASE ~(Finished(c) /\ c.len = 0)
    <3>1. d.len = c.len
      BY <1>3, <2>2
    <3> QED BY <1>2, <1>3, <3>1 DEF ReqInv, Finished, DoneWithin
  <2> QED BY <2>1, <2>2
<1>5. Begins(sent, d.out) /\ CutBehind(d, Len(sent))
  BY <1>2, <1>3 DEF Begins, CutBehind
<1>6. /\ T \in Seq(Token) /\ Len(T) = IF d.len = 0 THEN Len(d.out) ELSE d.len
      /\ \A i \in 1..Len(T) : T[i] = d.out[i]
  BY <1>3, <1>4, ThroughStopFacts DEF ReqInv
<1>7. Begins(sent, T)
  BY <1>2, <1>3, <1>5, <1>6 DEF Begins, CutBehind
<1>8. CASE ShouldOutput(c, held)
  <2>1. sent' = T
    BY <1>1, <1>6, <1>7, <1>8, SentAndUnsent DEF Unsent
  <2>2. Len(T) \in Nat /\ Len(T) <= Len(d.out) /\ (d.len # 0 => Len(T) <= d.len)
    BY <1>2, <1>3, <1>4, <1>6 DEF ReqInv
  <2> HIDE DEF T
  <2>3. Begins(sent', d.out) /\ CutBehind(d, Len(sent'))
    BY <1>6, <2>1, <2>2 DEF Begins, CutBehind
  <2>4. ~c.finished_output
    BY <1>2, <1>8 DEF ShouldOutput, FirstVisit
  <2>5. finals' = IF req'.finished_output THEN 1 ELSE 0
    BY <1>1, <1>3, <1>8, <2>4
  <2> QED BY <1>1, <1>3, <1>4, <1>6, <2>1, <2>3, <2>5 DEF Finished, T
<1>9. CASE ~ShouldOutput(c, held)
  <2>1. sent' = sent /\ finals' = finals /\ (Finished(c) <=> c.finished_output)
    BY <1>1, <1>2, <1>9 DEF ShouldOutput, FirstVisit
  <2>2. Finished(c) => T = sent
    <3> SUFFICES ASSUME Finished(c) PROVE T = sent
      OBVIOUS
    <3>1. /\ ThroughStop(c) \in Seq(Token)
          /\ Len(ThroughStop(c)) = IF c.len = 0 THEN Len(c.out) ELSE c.len
          /\ \A i \in 1..Len(ThroughStop(c)) : ThroughStop(c)[i] = c.out[i]
      BY <1>2, ThroughStopFacts
    <3> HIDE DEF T
    <3>2. Len(ThroughStop(c)) = Len(T)
      BY <1>2, <1>3, <1>6, <3>1
    <3>3. ThroughStop(c) = T
      BY <1>3, <1>6, <3>1, <3>2, SeqEqual
    <3> QED BY <2>1, <3>3
  <2>3. Finished(d) <=> Finished(c)
    BY <1>3 DEF Finished
  <2> HIDE DEF T
  <2> QED BY <1>1, <1>3, <1>4, <1>5, <2>1, <2>2, <2>3 DEF T
<1> QED BY <1>8, <1>9

-----------------------------------------------------------------------------
(* The invariant. *)

\* Between two messages, one token or one path is added and checked.
LEMMA AddedFacts ==
  ASSUME OutputInv, ~Finished(req), NEW path \in Seq(Token), path # <<>>
  PROVE  LET c == Checked([req EXCEPT !.out = @ \o path], Len(path))
         IN  /\ ReqInv(c) /\ Len(c.out) = Len(req.out) + Len(path)
             /\ Begins(sent, c.out) /\ CutBehind(c, Len(sent))
             /\ ~c.finished_output
             /\ \A i \in 1..Len(path) : path[i] = "end" =>
                  \E j \in 1..Len(c.out) : c.out[j] = "end"
<1> DEFINE q == [req EXCEPT !.out = @ \o path]
           c == Checked(q, Len(path))
           k == Len(req.out)
<1>1. /\ req \in ReqRecord /\ req.out \in Seq(Token) /\ k \in Nat /\ Len(sent) \in Nat
      /\ Len(path) \in Nat /\ Len(path) > 0 /\ req.len = 0 /\ k < MaxNew /\ Clean(req.out, k)
      /\ Len(sent) <= k /\ ~req.finished_output /\ DoneWithin(req, k)
  BY LenProperties, EmptySeq DEF OutputInv, ReqInv, ReqRecord, Begins
<1>2. /\ req.out \o path \in Seq(Token) /\ Len(req.out \o path) = k + Len(path)
      /\ \A i \in 1..(k + Len(path)) :
           (req.out \o path)[i] = IF i <= k THEN req.out[i] ELSE path[i - k]
  BY <1>1, ConcatProperties
<1>3. /\ q \in ReqRecord /\ q.out = req.out \o path /\ q.len = 0 /\ q.reason = req.reason
      /\ q.grammar = req.grammar /\ ~q.finished_output
  BY <1>1, <1>2 DEF ReqRecord
<1> HIDE DEF q
<1>4. \A i \in 1..k : q.out[i] = req.out[i]
  BY <1>1, <1>2, <1>3
<1>5. /\ ~Finished(q) /\ Len(path) \in 1..Len(q.out) /\ k \in 0..Len(q.out)
      /\ Len(q.out) - Len(path) <= k /\ Clean(q.out, k)
  BY <1>1, <1>2, <1>3, <1>4 DEF Finished, Clean
<1>d. DoneWithin(q, k)
  BY <1>1, <1>3, <1>4 DEF DoneWithin
<1>6. /\ ReqInv(c) /\ Len(c.out) = Len(q.out) /\ CutBehind(c, k)
      /\ \A i \in 1..k : c.out[i] = q.out[i]
      /\ \A i \in 1..Len(q.out) : q.out[i] # "nan" => c.out[i] = q.out[i]
      /\ ~c.finished_output
  BY <1>1, <1>3, <1>5, <1>d, CheckedFacts
<1> HIDE DEF c
<1>7. c.len \in Nat /\ Len(c.out) = k + Len(path)
  BY <1>2, <1>3, <1>6 DEF ReqInv, ReqRecord
<1>8. Begins(sent, c.out)
  BY <1>1, <1>4, <1>6, <1>7, SMTT(30) DEF OutputInv, Begins
<1>9. CutBehind(c, Len(sent))
  BY <1>1, <1>6, <1>7 DEF CutBehind
<1>10. ASSUME NEW i \in 1..Len(path), path[i] = "end"
       PROVE  \E j \in 1..Len(c.out) : c.out[j] = "end"
  <2>1. i + k \in 1..(k + Len(path)) /\ ~(i + k <= k) /\ (i + k) - k = i
    BY <1>1
  <2>2. q.out[i + k] = "end"
    BY <1>2, <1>3, <1>10, <2>1
  <2>3. c.out[i + k] = "end"
    BY <1>2, <1>3, <1>6, <2>1, <2>2
  <2> QED BY <1>7, <2>1, <2>3
<1> QED BY <1>6, <1>7, <1>8, <1>9, <1>10 DEF c, q

\* The same, and the grammar is told (by the scheduler or by the worker).
LEMMA AddedAccepted ==
  ASSUME OutputInv, ~Finished(req), NEW path \in Seq(Token), path # <<>>,
         NEW c, c = Checked([req EXCEPT !.out = @ \o path], Len(path)),
         NEW a \in {c, Accepted(c, path), Advanced(c, path)}
  PROVE  /\ ReqInv(a) /\ Len(a.out) = Len(req.out) + Len(path) /\ a.out # <<>>
         /\ Begins(sent, a.out) /\ CutBehind(a, Len(sent))
         /\ ~a.finished_output /\ sent \in Seq(Token) /\ finals = 0
<1>1. /\ ReqInv(c) /\ Len(c.out) = Len(req.out) + Len(path)
      /\ Begins(sent, c.out) /\ CutBehind(c, Len(sent)) /\ ~c.finished_output
      /\ \A i \in 1..Len(path) : path[i] = "end" => \E j \in 1..Len(c.out) : c.out[j] = "end"
  BY AddedFacts
<1>2. /\ ReqInv(a) /\ a.out = c.out /\ a.len = c.len /\ a.finished_output = c.finished_output
  <2>1. CASE a = c
    BY <1>1, <2>1
  <2>2. CASE a \in {Accepted(c, path), Advanced(c, path)}
    BY <1>1, <2>2, AcceptedFacts
  <2> QED BY <2>1, <2>2
<1>3. a.out # <<>>
  <2>1. Len(path) \in Nat \ {0} /\ Len(req.out) \in Nat
    BY EmptySeq, LenProperties DEF OutputInv, ReqInv, ReqRecord
  <2> QED BY <1>1, <1>2, <2>1, EmptySeq
<1>4. finals = 0 /\ sent \in Seq(Token)
  BY DEF OutputInv
<1> QED BY <1>1, <1>2, <1>3, <1>4 DEF Begins, CutBehind

\* A request starts with the invariant (an empty output, nothing sent).
LEMMA InitInv == Init => OutputInv
<1> SUFFICES ASSUME Init PROVE OutputInv
  OBVIOUS
<1>1. <<>> \in Seq(Token) /\ Len(<<>>) = 0 /\ MaxNew \in Nat /\ MaxNew > 0
  BY EmptySeq, OutputAssumption
<1>2. /\ req \in ReqRecord /\ req.out = <<>> /\ req.reason = "none" /\ req.len = 0
      /\ req.finished_output = FALSE /\ req.grammar # "done"
  BY <1>1 DEF Init, ReqRecord, Reason
<1>3. ReqInv(req)
  BY <1>1, <1>2 DEF ReqInv, Finished, Clean, DoneWithin
<1>4. Begins(sent, req.out) /\ CutBehind(req, Len(sent)) /\ sent \in Seq(Token)
  BY <1>1, <1>2 DEF Init, Begins, CutBehind
<1> QED BY <1>1, <1>2, <1>3, <1>4 DEF Init, OutputInv, Finished

\* An accepted path is a sequence of at least one token and at most MaxPath.
LEMMA PathFacts ==
  ASSUME NEW path \in AcceptedPath
  PROVE  path \in Seq(Token) /\ path # <<>> /\ Len(path) \in 1..MaxPath
<1>1. PICK n \in 1..MaxPath : path \in [1..n -> Alphabet(req)]
  BY DEF AcceptedPath
<1>2. n \in Nat /\ n > 0 /\ MaxPath \in Nat
  BY OutputAssumption
<1>3. path \in Seq(Token)
  <2>1. path \in [1..n -> Token]
    BY <1>1 DEF Alphabet
  <2> QED BY <1>2, <2>1, SeqDef
<1>4. DOMAIN path = 1..n /\ DOMAIN path = 1..Len(path) /\ Len(path) \in Nat
  BY <1>1, <1>3, LenProperties
<1>5. Len(path) = n
  BY <1>2, <1>4
<1> QED BY <1>2, <1>3, <1>5, EmptySeq

\* A single token as a sequence.
LEMMA OneFacts ==
  ASSUME NEW token \in Token
  PROVE  <<token>> \in Seq(Token) /\ <<token>> # <<>> /\ Len(<<token>>) = 1
OBVIOUS

\* The first token is the empty output with one token behind it.
LEMMA FirstToken ==
  ASSUME OutputInv, NEW token \in Token, req.out = <<>>
  PROVE  [req EXCEPT !.out = <<token>>] = [req EXCEPT !.out = @ \o <<token>>]
<1>1. req.out \o <<token>> = <<token>>
  BY OneFacts, ConcatEmptySeq
<1> QED BY <1>1 DEF OutputInv, ReqInv, ReqRecord

\* The token the worker appends is one more behind the output.
LEMMA NextTokenOf ==
  ASSUME OutputInv, FillToken
  PROVE  /\ Head(left) \in Token /\ Tail(left) \in Seq(Token) /\ ~Finished(req) /\ filling
         /\ Append(req.out, Head(left)) = req.out \o <<Head(left)>>
<1>1. left \in Seq(Token) /\ left # <<>> /\ ~Finished(req) /\ filling
  BY DEF FillToken, GoesOn, OutputInv
<1>2. Head(left) \in Token /\ Tail(left) \in Seq(Token)
  BY <1>1, HeadTailProperties
<1>3. req.out \in Seq(Token)
  BY DEF OutputInv, ReqInv, ReqRecord
<1> QED BY <1>1, <1>2, <1>3, AppendIsConcat

\* Every action keeps the invariant.
LEMMA StepInv == OutputInv /\ [Next]_vars => OutputInv'
<1> SUFFICES ASSUME OutputInv, [Next]_vars PROVE OutputInv'
  OBVIOUS
<1>0. /\ req \in ReqRecord /\ req.out \in Seq(Token) /\ Len(req.out) \in Nat
      /\ sent \in Seq(Token) /\ Len(sent) \in Nat
  BY LenProperties DEF OutputInv, ReqInv, ReqRecord
<1>1. CASE Abort
  <2>1. /\ req' \in ReqRecord /\ req'.out = req.out /\ req'.len = req.len
        /\ req'.reason = req.reason /\ ~Finished(req)
        /\ req'.finished_output = req.finished_output /\ req'.grammar = req.grammar
    BY <1>0, <1>1 DEF Abort, ReqRecord
  <2>2. ReqInv(req')
    BY <2>1 DEF OutputInv, ReqInv, Finished, DoneWithin
  <2>3. UNCHANGED <<spec_v2, sent, finals, filling, left, raised>>
    BY <1>1 DEF Abort
  <2> QED BY <2>1, <2>2, <2>3 DEF OutputInv, Finished, Begins, CutBehind
<1>2. ASSUME NEW token \in Alphabet(req), NEW held \in BOOLEAN, Prefill(token, held)
      PROVE  OutputInv'
  <2> DEFINE c == Checked([req EXCEPT !.out = @ \o <<token>>], Len(<<token>>))
             a == Accepted(c, <<token>>)
  <2>1. req.out = <<>> /\ ~Finished(req) /\ token \in Token /\ ~filling
    BY <1>2 DEF Prefill, OutputInv, Alphabet
  <2>2. Streamed(a, held) /\ UNCHANGED <<spec_v2, filling, left, raised>>
    BY <1>2, <2>1, FirstToken, OneFacts DEF Prefill
  <2>3. /\ ReqInv(a) /\ a.out # <<>> /\ Begins(sent, a.out) /\ CutBehind(a, Len(sent))
        /\ ~a.finished_output /\ finals = 0
    BY <2>1, OneFacts, AddedAccepted
  <2> HIDE DEF a
  <2>4. /\ ReqInv(req') /\ sent' \in Seq(Token)
        /\ Begins(sent', req'.out) /\ CutBehind(req', Len(sent'))
        /\ Finished(req') => sent' = ThroughStop(req')
        /\ req'.out = a.out /\ (req'.finished_output <=> Finished(req'))
        /\ finals' = IF req'.finished_output THEN 1 ELSE 0
    BY <1>0, <2>2, <2>3, StreamedFacts
  <2> QED BY <2>1, <2>2, <2>3, <2>4 DEF OutputInv
<1>3. CASE DecodeV1
  <2>1. left' \in Seq(Token)
    BY <1>3, PathFacts DEF DecodeV1
  <2> QED BY <1>3, <2>1 DEF DecodeV1, OutputInv
<1>4. CASE FillToken
  <2> DEFINE t == Head(left)
             c == Checked([req EXCEPT !.out = @ \o <<t>>], Len(<<t>>))
             a == IF Finished(c) THEN c ELSE Advanced(c, <<t>>)
  <2>1. /\ t \in Token /\ Tail(left) \in Seq(Token) /\ ~Finished(req) /\ filling
        /\ Append(req.out, t) = req.out \o <<t>>
    BY <1>4, NextTokenOf
  <2>2. /\ req' = a /\ left' = Tail(left) /\ raised' \in BOOLEAN
        /\ UNCHANGED <<spec_v2, sent, finals, filling>>
    BY <1>4, <2>1, OneFacts DEF FillToken
  <2> HIDE DEF t
  <2>3. /\ ReqInv(a) /\ a.out # <<>> /\ Begins(sent, a.out) /\ CutBehind(a, Len(sent))
        /\ ~a.finished_output /\ finals = 0
    <3>1. a \in {c, Accepted(c, <<t>>), Advanced(c, <<t>>)}
      OBVIOUS
    <3> QED BY <2>1, <3>1, OneFacts, AddedAccepted
  <2> HIDE DEF a
  <2>4. a.finished_output = FALSE
    BY <2>3 DEF ReqInv, ReqRecord
  <2> QED BY <2>1, <2>2, <2>3, <2>4 DEF OutputInv
<1>5. ASSUME NEW held \in BOOLEAN, EndFill(held)
      PROVE  OutputInv'
  <2> DEFINE c == Checked(req, 1)
  <2>1. /\ Streamed(c, held) /\ filling' = FALSE /\ left' = <<>> /\ UNCHANGED <<spec_v2, raised>>
        /\ req.out # <<>> /\ ~req.finished_output /\ finals = 0
    BY <1>5 DEF EndFill, OutputInv
  <2>2. /\ ReqInv(c) /\ Len(c.out) = Len(req.out)
        /\ Begins(sent, c.out) /\ CutBehind(c, Len(sent)) /\ ~c.finished_output
    <3>1. CASE Finished(req)
      <4>1. c = req
        BY <3>1 DEF Checked
      <4> QED BY <2>1, <4>1 DEF OutputInv
    <3>2. CASE ~Finished(req)
      <4> DEFINE k == Len(req.out)
      <4>1. req.len = 0 /\ k < MaxNew /\ Clean(req.out, k) /\ Len(sent) <= k /\ DoneWithin(req, k)
        BY <3>2 DEF OutputInv, ReqInv, Begins
      <4>2. 1 \in 1..k /\ k \in 0..k /\ k - 1 <= k
        BY <1>0, <2>1, EmptySeq
      <4>3. /\ ReqInv(c) /\ Len(c.out) = k /\ CutBehind(c, k)
            /\ \A i \in 1..k : c.out[i] = req.out[i]
            /\ ~c.finished_output
        BY <1>0, <2>1, <3>2, <4>1, <4>2, CheckedFacts
      <4> HIDE DEF c
      <4>4. Begins(sent, c.out)
        BY <1>0, <4>1, <4>3 DEF OutputInv, Begins
      <4>5. CutBehind(c, Len(sent))
        BY <1>0, <4>1, <4>3 DEF CutBehind, ReqInv, ReqRecord
      <4> QED BY <4>3, <4>4, <4>5
    <3> QED BY <3>1, <3>2
  <2> HIDE DEF c
  <2>3. /\ ReqInv(req') /\ sent' \in Seq(Token)
        /\ Begins(sent', req'.out) /\ CutBehind(req', Len(sent'))
        /\ Finished(req') => sent' = ThroughStop(req')
        /\ req'.out = c.out /\ (req'.finished_output <=> Finished(req'))
        /\ finals' = IF req'.finished_output THEN 1 ELSE 0
    BY <1>0, <2>1, <2>2, StreamedFacts
  <2>4. c.out # <<>> /\ <<>> \in Seq(Token)
    BY <1>0, <2>1, <2>2, EmptySeq
  <2> QED BY <2>1, <2>3, <2>4 DEF OutputInv
<1>6. ASSUME NEW held \in BOOLEAN, DecodeV2(held)
      PROVE  OutputInv'
  <2>1. PICK path \in AcceptedPath :
          Streamed(Accepted(Checked([req EXCEPT !.out = @ \o path], Len(path)), path), held)
    BY <1>6 DEF DecodeV2
  <2> DEFINE c == Checked([req EXCEPT !.out = @ \o path], Len(path))
             a == Accepted(c, path)
  <2>2. /\ path \in Seq(Token) /\ path # <<>> /\ ~Finished(req) /\ spec_v2 /\ ~filling
        /\ UNCHANGED <<spec_v2, filling, left, raised>>
    BY <1>6, PathFacts DEF DecodeV2, OutputInv
  <2>3. /\ ReqInv(a) /\ a.out # <<>> /\ Begins(sent, a.out) /\ CutBehind(a, Len(sent))
        /\ ~a.finished_output /\ finals = 0
    BY <2>2, AddedAccepted
  <2>4. Streamed(a, held)
    BY <2>1
  <2> HIDE DEF a
  <2>5. /\ ReqInv(req') /\ sent' \in Seq(Token)
        /\ Begins(sent', req'.out) /\ CutBehind(req', Len(sent'))
        /\ Finished(req') => sent' = ThroughStop(req')
        /\ req'.out = a.out /\ (req'.finished_output <=> Finished(req'))
        /\ finals' = IF req'.finished_output THEN 1 ELSE 0
    BY <1>0, <2>3, <2>4, StreamedFacts
  <2> QED BY <2>2, <2>3, <2>5 DEF OutputInv
<1>7. ASSUME NEW held \in BOOLEAN, LateResult(held)
      PROVE  OutputInv'
  <2>1. /\ Streamed(req, held) /\ Finished(req) /\ ~filling /\ req.out # <<>>
        /\ UNCHANGED <<spec_v2, filling, left, raised>>
    BY <1>7 DEF LateResult, OutputInv
  <2>2. /\ ReqInv(req') /\ sent' \in Seq(Token)
        /\ Begins(sent', req'.out) /\ CutBehind(req', Len(sent'))
        /\ Finished(req') => sent' = ThroughStop(req')
        /\ req'.out = req.out /\ (req'.finished_output <=> Finished(req'))
        /\ finals' = IF req'.finished_output THEN 1 ELSE 0
    BY <1>0, <2>1, StreamedFacts DEF OutputInv
  <2> QED BY <2>1, <2>2 DEF OutputInv
<1>8. CASE UNCHANGED vars
  BY <1>8 DEF vars, OutputInv
<1> QED BY <1>1, <1>2, <1>3, <1>4, <1>5, <1>6, <1>7, <1>8 DEF Next

\* The inductive invariant holds in every behaviour.
THEOREM InvariantHolds == Spec => []OutputInv
BY InitInv, StepInv, PTL DEF Spec

\* Types, and no more than max_new_tokens are handed out, for every limit
\* (check_finished, schedule_batch.py:1044).
THEOREM OutputTypeCorrect == Spec => []OutputTypeOK
<1>1. OutputInv => OutputTypeOK
  <2> SUFFICES ASSUME OutputInv PROVE OutputTypeOK
    OBVIOUS
  <2>1. /\ req \in ReqRecord /\ req.len <= Len(req.out) /\ req.out \in Seq(Token)
        /\ left \in Seq(Token) /\ Len(req.out) \in Nat /\ req.len \in Nat /\ MaxNew \in Nat
    BY LenProperties, OutputAssumption DEF OutputInv, ReqInv, ReqRecord
  <2>2. /\ \A i \in DOMAIN req.out : req.out[i] \in Token
        /\ \A i \in DOMAIN left : left[i] \in Token
    BY <2>1, LenProperties, ElementOfSeq
  <2>3. req.reason # "abort" => Len(ThroughStop(req)) <= MaxNew
    BY <2>1, ThroughStopFacts DEF OutputInv, ReqInv
  <2>4. finals \in Nat
    BY DEF OutputInv
  <2> QED BY <2>1, <2>2, <2>3, <2>4 DEF OutputTypeOK, OutputInv, ReqRecord, Reason
<1> QED BY <1>1, InvariantHolds, PTL

\* Nothing is sent twice, skipped or out of order, a finished request is complete
\* and its finish is reported once, for every stream interval, path length and tail (send_token_offset,
\* scheduler_output_processor_mixin.py:948).
THEOREM StreamCorrect == Spec => []StreamedInOrder
<1>1. OutputInv => StreamedInOrder
  <2> SUFFICES ASSUME OutputInv PROVE StreamedInOrder
    OBVIOUS
  <2>1. /\ req \in ReqRecord /\ req.len <= Len(req.out) /\ sent \in Seq(Token)
        /\ Len(sent) \in Nat /\ Len(req.out) \in Nat /\ req.len \in Nat
    BY LenProperties DEF OutputInv, ReqInv, ReqRecord
  <2>2. /\ ThroughStop(req) \in Seq(Token)
        /\ Len(ThroughStop(req)) = IF req.len = 0 THEN Len(req.out) ELSE req.len
        /\ \A i \in 1..Len(ThroughStop(req)) : ThroughStop(req)[i] = req.out[i]
    BY <2>1, ThroughStopFacts
  <2>3. Begins(sent, ThroughStop(req))
    BY <2>1, <2>2, SMTT(30) DEF OutputInv, Begins, CutBehind
  <2>4. sent = SubSeq(ThroughStop(req), 1, Len(sent))
    BY <2>1, <2>2, <2>3, BeginsIsSubSeq
  <2>5. finals = IF Finished(req) /\ ~filling THEN 1 ELSE 0
    BY DEF OutputInv
  <2> QED BY <2>3, <2>4, <2>5 DEF StreamedInOrder, OutputInv, Begins
<1> QED BY <1>1, InvariantHolds, PTL

\* A matched token is the last one handed out and the first of its kind, with one
\* check per token and with one per path; when a completed grammar ended the request,
\* everything is handed out and one of its tokens completed the grammar
\* (_check_token_based_finish, check_finished).
THEOREM MatchedTokenCorrect == Spec => []MatchedTokenIsLast
<1>1. OutputInv => MatchedTokenIsLast
  <2> SUFFICES ASSUME OutputInv PROVE MatchedTokenIsLast
    OBVIOUS
  <2>1. /\ req \in ReqRecord /\ req.len <= Len(req.out) /\ req.len \in Nat
        /\ req.out \in Seq(Token) /\ Len(req.out) \in Nat /\ DOMAIN req.out = 1..Len(req.out)
    BY LenProperties DEF OutputInv, ReqInv, ReqRecord
  <2>2. /\ ThroughStop(req) \in Seq(Token)
        /\ Len(ThroughStop(req)) = IF req.len = 0 THEN Len(req.out) ELSE req.len
        /\ \A i \in 1..Len(ThroughStop(req)) : ThroughStop(req)[i] = req.out[i]
    BY <2>1, ThroughStopFacts
  <2>3. ASSUME req.reason = "eos"
        PROVE  /\ ThroughStop(req) # <<>>
               /\ ThroughStop(req)[Len(ThroughStop(req))] = "eos"
               /\ \A i \in 1..(Len(ThroughStop(req)) - 1) : ThroughStop(req)[i] # "eos"
    <3>1. /\ req.len > 0 /\ req.out[req.len] = "eos"
          /\ \A i \in 1..(req.len - 1) : req.out[i] # "eos"
      BY <2>3 DEF OutputInv, ReqInv
    <3> QED BY <2>1, <2>2, <3>1, EmptySeq, SMTT(30)
  <2>4. ASSUME req.reason = "grammar"
        PROVE  /\ ThroughStop(req) = req.out
               /\ \E i \in DOMAIN req.out : Completes(req, i)
    <3>1. /\ req.len \in {0, Len(req.out)} /\ req.grammar = "done"
          /\ \E i \in 1..Len(req.out) : req.out[i] = "end"
      BY <2>4 DEF OutputInv, ReqInv, DoneWithin
    <3>2. Len(ThroughStop(req)) = Len(req.out)
      BY <2>1, <2>2, <3>1
    <3>3. ThroughStop(req) = req.out
      BY <2>1, <2>2, <3>2, SeqEqual
    <3> QED BY <2>1, <3>1, <3>3 DEF Completes
  <2> QED BY <2>3, <2>4 DEF MatchedTokenIsLast
<1> QED BY <1>1, InvariantHolds, PTL

-----------------------------------------------------------------------------
(* How late a stop is noticed. *)

\* In a request that goes on, a completed grammar was completed within the last path
\* and no stop string is near the end; in a finished one the stop tokens are in the
\* last path and the token that completed the grammar in the last two.
Bounded(q) ==
  /\ ~Finished(q) => \A i \in 1..Len(q.out) :
       /\ Completes(q, i) => q.to_finish \/ (q.grammar = "done" /\ Len(q.out) - i < MaxPath)
       /\ q.out[i] = "str" => Len(q.out) - i > 2
  /\ Finished(q) /\ q.reason # "abort" => \A i \in 1..Len(q.out) :
       /\ q.out[i] \in {"eos", "nan"} => Len(q.out) - i < MaxPath
       /\ Completes(q, i) => Len(q.out) - i < 2 * MaxPath

\* Tokens a check passes over.
Ordinary == {"tok", "end", "bad"}
AllOrdinary(out, k) == \A i \in 1..k : out[i] \in Ordinary

\* With the synchronous worker, checked after every token, only the last token can
\* meet a stop condition, and it does when the request is finished; a grammar may
\* also have been completed by the token before.
StopIsLast(q) ==
  /\ ~Finished(q) =>
       /\ AllOrdinary(q.out, Len(q.out))
       /\ \A i \in 1..Len(q.out) : Completes(q, i) => i = Len(q.out) /\ q.grammar = "done"
       /\ q.grammar = "done" => q.out # <<>> /\ Completes(q, Len(q.out))
  /\ Finished(q) /\ q.reason # "abort" =>
       /\ q.out # <<>> /\ q.len \in {0, Len(q.out)} /\ Len(q.out) <= MaxNew
       /\ AllOrdinary(q.out, Len(q.out) - 1)
       /\ \A i \in 1..(Len(q.out) - 2) : ~Completes(q, i)
       /\ \/ q.out[Len(q.out)] \notin Ordinary \/ Len(q.out) = MaxNew
          \/ Completes(q, Len(q.out))
          \/ Len(q.out) > 1 /\ Completes(q, Len(q.out) - 1)

LateInv == OutputInv /\ Bounded(req) /\ (~spec_v2 => StopIsLast(req))

\* A check that finds the tail without a stop string leaves more than two tokens
\* behind every stop string.
LEMMA TailFacts ==
  ASSUME NEW q \in ReqRecord, NEW i \in 1..Len(q.out), q.out[i] = "str", ~StopStrInTail(q)
  PROVE  Len(q.out) - i > 2
<1>1. /\ Len(q.out) \in Nat /\ DOMAIN q.out = 1..Len(q.out) /\ i \in DOMAIN q.out
      /\ StopStrMaxLen \in Nat \ {0}
  BY LenProperties, OutputAssumption DEF ReqRecord
<1>2. StringStart(i) \notin TailIndices(q)
  BY <1>1 DEF StopStrInTail
<1> QED BY <1>1, <1>2 DEF StringStart, TailIndices

\* A check of a request whose first k tokens were checked before and whose new ones
\* are at most a path.
LEMMA CheckedBounded ==
  ASSUME NEW q \in ReqRecord, ~Finished(q), q.len = 0, ~q.finished_output,
         NEW n \in 1..Len(q.out), NEW k \in 0..Len(q.out),
         Len(q.out) - n <= k, k < MaxNew, Clean(q.out, k), DoneWithin(q, k),
         Len(q.out) - k <= MaxPath,
         \A i \in 1..k : Completes(q, i) => q.to_finish \/ (q.grammar = "done" /\ k - i < MaxPath)
  PROVE  LET c == Checked(q, n)
         IN  /\ Finished(c) => Bounded(c)
             /\ ~Finished(c) =>
                  /\ c = q /\ q.grammar # "done" /\ \A i \in 1..k : ~Completes(q, i)
                  /\ \A i \in 1..Len(q.out) : q.out[i] = "str" => Len(q.out) - i > 2
<1> DEFINE c == Checked(q, n)
<1>1. /\ Len(c.out) = Len(q.out) /\ c.grammar = q.grammar
      /\ \A i \in 1..k : c.out[i] = q.out[i]
      /\ q.to_finish => c.reason = "abort"
  BY CheckedFacts
<1>2. Len(q.out) \in Nat /\ k \in Nat /\ MaxPath \in Nat \ {0}
  BY LenProperties, OutputAssumption DEF ReqRecord
<1> HIDE DEF c
<1>3. ASSUME Finished(c), c.reason # "abort", NEW i \in 1..Len(c.out)
      PROVE  /\ c.out[i] \in {"eos", "nan"} => Len(c.out) - i < MaxPath
             /\ Completes(c, i) => Len(c.out) - i < 2 * MaxPath
  <2>1. CASE i > k
    BY <1>1, <1>2, <2>1
  <2>2. CASE i <= k
    <3>1. i \in 1..k /\ c.out[i] = q.out[i] /\ ~q.to_finish
      BY <1>1, <1>2, <1>3, <2>2
    <3>2. c.out[i] \notin {"eos", "nan"}
      BY <3>1 DEF Clean
    <3>3. Completes(c, i) => k - i < MaxPath
      BY <1>1, <3>1 DEF Completes
    <3> QED BY <1>1, <1>2, <3>1, <3>2, <3>3
  <2> QED BY <1>2, <2>1, <2>2
<1>4. Finished(c) => Bounded(c)
  BY <1>3 DEF Bounded
<1>5. ASSUME ~Finished(c)
      PROVE  /\ c = q /\ q.grammar # "done" /\ \A i \in 1..k : ~Completes(q, i)
             /\ \A i \in 1..Len(q.out) : q.out[i] = "str" => Len(q.out) - i > 2
  <2>1. c = q /\ ~q.to_finish /\ q.grammar # "done" /\ ~StopStrInTail(q)
    BY <1>5, GoesOnFacts DEF c
  <2> QED BY <2>1, TailFacts
<1> QED BY <1>4, <1>5 DEF c

\* Telling the grammar of the tokens behind the first k, none of which completed it.
LEMMA AcceptedBounded ==
  ASSUME NEW c \in ReqRecord, NEW path \in Seq(Token), NEW k \in Nat,
         Len(c.out) = k + Len(path), Len(path) <= MaxPath,
         Finished(c) => Bounded(c),
         ~Finished(c) =>
           /\ c.grammar # "done" /\ \A i \in 1..k : ~Completes(c, i)
           /\ \A i \in 1..Len(path) : c.out[i + k] = path[i]
           /\ \A i \in 1..Len(c.out) : c.out[i] = "str" => Len(c.out) - i > 2
  PROVE  /\ Bounded(Accepted(c, path))
         /\ Len(path) = 1 => Bounded(Advanced(c, path))
<1> DEFINE v == Verdict(c, path)
<1>0. /\ v \in {"tok", "end", "bad"} /\ (v # "tok" => c.grammar = "live")
      /\ v = "tok" => c.grammar # "live" \/ \A i \in 1..Len(path) : path[i] \notin {"end", "bad"}
      /\ v = "bad" => \E i \in 1..Len(path) : path[i] = "bad"
  BY VerdictFacts
<1>1. Len(path) \in Nat /\ MaxPath \in Nat
  BY LenProperties, OutputAssumption
<1>2. CASE Finished(c)
  <2>1. /\ Accepted(c, path) = Advanced(c, path)
        /\ Advanced(c, path) = c \/ (c.grammar = "live" /\ Advanced(c, path) = [c EXCEPT !.grammar = "done"])
    BY <1>0, <1>2 DEF Accepted, Advanced
  <2> DEFINE a == Advanced(c, path)
  <2>2. /\ a.out = c.out /\ a.reason = c.reason
        /\ \A i : Completes(a, i) <=> Completes(c, i)
    BY <2>1 DEF ReqRecord, Completes
  <2> HIDE DEF a
  <2>3. Bounded(a)
    BY <1>2, <2>2 DEF Bounded, Finished
  <2> QED BY <2>1, <2>3 DEF a
<1>3. CASE ~Finished(c)
  <2>1. \A i \in 1..Len(c.out) : Completes(c, i) =>
          /\ c.grammar = "live" /\ Len(c.out) - i < MaxPath
          /\ i - k \in 1..Len(path) /\ path[i - k] = "end"
    <3> SUFFICES ASSUME NEW i \in 1..Len(c.out), Completes(c, i)
                 PROVE  /\ c.grammar = "live" /\ Len(c.out) - i < MaxPath
                        /\ i - k \in 1..Len(path) /\ path[i - k] = "end"
      OBVIOUS
    <3>1. c.grammar = "live"
      BY <1>3 DEF Completes, ReqRecord
    <3>2. i > k
      BY <1>1, <1>3
    <3>3. i - k \in 1..Len(path) /\ (i - k) + k = i
      BY <1>1, <3>2
    <3>4. path[i - k] = "end"
      BY <1>3, <3>3 DEF Completes
    <3> QED BY <1>1, <3>1, <3>2, <3>3, <3>4
  <2>2. CASE v = "bad"
    <3>1. Rejected(c, path) /\ Accepted(c, path) = [c EXCEPT !.to_finish = TRUE]
      BY <1>3, <2>2 DEF Accepted, Rejected
    <3> DEFINE a == Accepted(c, path)
    <3>2. a.out = c.out /\ a.reason = c.reason /\ a.to_finish
      BY <3>1 DEF ReqRecord
    <3> HIDE DEF a
    <3>3. Bounded(a)
      BY <1>3, <3>2 DEF Bounded, Finished
    <3>4. Len(path) = 1 => Bounded(Advanced(c, path))
      <4> SUFFICES ASSUME Len(path) = 1 PROVE Bounded(Advanced(c, path))
        OBVIOUS
      <4>1. Advanced(c, path) = c
        BY <2>2 DEF Advanced
      <4>2. path[1] = "bad"
        BY <1>0, <2>2
      <4>3. \A i \in 1..Len(c.out) : ~Completes(c, i)
        BY <2>1, <4>2
      <4>4. Bounded(c)
        BY <1>3, <4>3 DEF Bounded
      <4> QED BY <4>1, <4>4
    <3> QED BY <1>3, <3>1, <3>3, <3>4 DEF a
  <2>3. CASE v = "end"
    <3>1. /\ ~Rejected(c, path) /\ Accepted(c, path) = Advanced(c, path)
          /\ Advanced(c, path) = [c EXCEPT !.grammar = "done"]
      BY <2>3 DEF Accepted, Rejected, Advanced
    <3> DEFINE a == Advanced(c, path)
    <3>2. a.out = c.out /\ a.reason = c.reason /\ a.grammar = "done" /\ c.grammar = "live"
      BY <1>0, <2>3, <3>1 DEF ReqRecord
    <3> HIDE DEF a
    <3>3. Bounded(a)
      BY <1>3, <2>1, <3>2 DEF Bounded, Finished, Completes
    <3> QED BY <3>1, <3>3 DEF a
  <2>4. CASE v = "tok"
    <3>1. Accepted(c, path) = c /\ Advanced(c, path) = c
      BY <2>4 DEF Accepted, Rejected, Advanced
    <3>2. \A i \in 1..Len(c.out) : ~Completes(c, i)
      BY <1>0, <2>1, <2>4
    <3>3. Bounded(c)
      BY <1>3, <3>2 DEF Bounded
    <3> QED BY <3>1, <3>3
  <2> QED BY <1>0, <2>2, <2>3, <2>4
<1> QED BY <1>2, <1>3

\* One token or one path is added to a request, checked and told to the grammar.
LEMMA AddedBounded ==
  ASSUME OutputInv, Bounded(req), ~Finished(req), NEW path \in Seq(Token),
         Len(path) \in 1..MaxPath
  PROVE  LET c == Checked([req EXCEPT !.out = @ \o path], Len(path))
         IN  /\ Bounded(Accepted(c, path))
             /\ Len(path) = 1 => Bounded(Advanced(c, path))
             /\ Finished(c) => Bounded(c)
<1> DEFINE q == [req EXCEPT !.out = @ \o path]
           c == Checked(q, Len(path))
           k == Len(req.out)
<1>1. /\ req \in ReqRecord /\ req.out \in Seq(Token) /\ k \in Nat /\ req.len = 0 /\ k < MaxNew
      /\ Clean(req.out, k) /\ ~req.finished_output /\ DoneWithin(req, k)
      /\ Len(path) \in Nat /\ Len(path) > 0 /\ Len(path) <= MaxPath /\ MaxPath \in Nat
  BY LenProperties, OutputAssumption DEF OutputInv, ReqInv, ReqRecord
<1>2. /\ req.out \o path \in Seq(Token) /\ Len(req.out \o path) = k + Len(path)
      /\ \A i \in 1..(k + Len(path)) :
           (req.out \o path)[i] = IF i <= k THEN req.out[i] ELSE path[i - k]
  BY <1>1, ConcatProperties
<1>3. /\ q \in ReqRecord /\ q.out = req.out \o path /\ q.len = 0 /\ q.reason = req.reason
      /\ q.grammar = req.grammar /\ ~q.finished_output /\ q.to_finish = req.to_finish
  BY <1>1, <1>2 DEF ReqRecord
<1> HIDE DEF q
<1>4. \A i \in 1..k : q.out[i] = req.out[i]
  BY <1>1, <1>2, <1>3
<1>5. /\ ~Finished(q) /\ Len(path) \in 1..Len(q.out) /\ k \in 0..Len(q.out)
      /\ Len(q.out) - Len(path) <= k /\ Clean(q.out, k) /\ Len(q.out) - k <= MaxPath
  BY <1>1, <1>2, <1>3, <1>4 DEF Finished, Clean
<1>6. DoneWithin(q, k)
  BY <1>1, <1>3, <1>4 DEF DoneWithin
<1>7. \A i \in 1..k : Completes(q, i) => q.to_finish \/ (q.grammar = "done" /\ k - i < MaxPath)
  BY <1>3, <1>4 DEF Bounded, Completes
<1>8. /\ Finished(c) => Bounded(c)
      /\ ~Finished(c) =>
           /\ c = q /\ q.grammar # "done" /\ \A i \in 1..k : ~Completes(q, i)
           /\ \A i \in 1..Len(q.out) : q.out[i] = "str" => Len(q.out) - i > 2
  BY <1>1, <1>3, <1>5, <1>6, <1>7, CheckedBounded
<1>9. c \in ReqRecord /\ Len(c.out) = k + Len(path)
  <2>1. ReqInv(c) /\ Len(c.out) = Len(q.out)
    BY <1>1, <1>3, <1>5, <1>6, CheckedFacts
  <2> QED BY <1>2, <1>3, <2>1 DEF ReqInv
<1>10. \A i \in 1..Len(path) : q.out[i + k] = path[i]
  <2> SUFFICES ASSUME NEW i \in 1..Len(path) PROVE q.out[i + k] = path[i]
    OBVIOUS
  <2>1. i + k \in 1..(k + Len(path)) /\ ~(i + k <= k) /\ (i + k) - k = i
    BY <1>1
  <2> QED BY <1>2, <1>3, <2>1
<1> HIDE DEF c
<1>11. Bounded(Accepted(c, path)) /\ (Len(path) = 1 => Bounded(Advanced(c, path)))
  BY <1>1, <1>8, <1>9, <1>10, AcceptedBounded
<1> QED BY <1>8, <1>11 DEF c, q

\* A message does not move a stop.
LEMMA StreamedKeeps ==
  ASSUME NEW c, NEW held, c \in ReqRecord, Streamed(c, held)
  PROVE  /\ Bounded(c) => Bounded(req')
         /\ StopIsLast(c) => StopIsLast(req')
<1>1. /\ req'.out = c.out /\ req'.reason = c.reason
      /\ req'.grammar = c.grammar /\ req'.to_finish = c.to_finish
      /\ req'.len = IF Finished(c) /\ c.len = 0 THEN Len(c.out) ELSE c.len
  <2>1. CASE Finished(c)
    <3>1. req' = [c EXCEPT !.finished_output = TRUE, !.len = IF @ = 0 THEN Len(c.out) ELSE @]
      BY <2>1 DEF Streamed, Closed
    <3> QED BY <2>1, <3>1 DEF ReqRecord
  <2>2. CASE ~Finished(c)
    BY <2>2 DEF Streamed, Closed
  <2> QED BY <2>1, <2>2
<1>2. Bounded(c) => Bounded(req')
  BY <1>1 DEF Bounded, Finished, Completes
<1>3. StopIsLast(c) => StopIsLast(req')
  BY <1>1 DEF StopIsLast, Finished, Completes
<1> QED BY <1>2, <1>3

-----------------------------------------------------------------------------
(* The synchronous worker. *)

\* A check with one new token notices whatever that token or, for the grammar, the
\* token before it meets.
LEMMA CheckedOneFacts ==
  ASSUME NEW q \in ReqRecord, ~Finished(q), q.len = 0, q.out # <<>>, ~q.finished_output,
         Len(q.out) <= MaxNew, AllOrdinary(q.out, Len(q.out) - 1), DoneWithin(q, Len(q.out)),
         \A i \in 1..(Len(q.out) - 2) : ~Completes(q, i),
         q.grammar = "done" => \/ Completes(q, Len(q.out))
                               \/ Len(q.out) > 1 /\ Completes(q, Len(q.out) - 1)
  PROVE  /\ Finished(Checked(q, 1)) => StopIsLast(Checked(q, 1))
         /\ ~Finished(Checked(q, 1)) => Checked(q, 1) = q /\ AllOrdinary(q.out, Len(q.out))
<1> DEFINE c == Checked(q, 1)
           n == Len(q.out)
<1>1. /\ q.out \in Seq(Token) /\ n \in Nat /\ n > 0 /\ MaxNew \in Nat /\ q.reason = "none"
      /\ DOMAIN q.out = 1..n /\ q.out[n] \in Token /\ q.to_finish \in BOOLEAN
  <2>1. q.out \in Seq(Token) /\ n \in Nat \ {0} /\ DOMAIN q.out = 1..n
    BY LenProperties, EmptySeq DEF ReqRecord
  <2>2. q.out[n] \in Token
    BY <2>1, ElementOfSeq
  <2> QED BY <2>1, <2>2, OutputAssumption DEF ReqRecord, Finished
<1>2. \A i \in 1..n : q.out[i] \notin Ordinary => i = n
  BY <1>1 DEF AllOrdinary
<1>3. 1 \in 1..n /\ n - 1 \in 0..n /\ n - 1 <= n - 1
  BY <1>1
<1>4. Clean(q.out, n - 1)
  BY <1>1 DEF Clean, AllOrdinary, Ordinary
<1>5. CASE q.to_finish
  <2>1. c = [q EXCEPT !.reason = "abort", !.to_finish = FALSE]
    BY <1>5 DEF Checked
  <2>2. c.reason = "abort"
    BY <2>1 DEF ReqRecord
  <2> HIDE DEF c
  <2> QED BY <2>2 DEF StopIsLast, Finished, c
<1>6. CASE ~q.to_finish /\ LimitReached(q)
  <2>1. c = [q EXCEPT !.reason = "length", !.len = MaxNew]
    BY <1>6 DEF Checked
  <2> HIDE DEF c
  <2>2. c.reason = "length" /\ c.len = MaxNew /\ c.out = q.out /\ c.grammar = q.grammar
    BY <2>1 DEF ReqRecord
  <2>3. n = MaxNew
    BY <1>1, <1>6 DEF LimitReached
  <2>4. StopIsLast(c) /\ Finished(c)
    BY <1>1, <2>2, <2>3 DEF StopIsLast, Finished, Completes
  <2> QED BY <2>4 DEF c
<1>7. CASE ~q.to_finish /\ ~LimitReached(q) /\ q.grammar = "done"
  <2>1. c = [q EXCEPT !.reason = "grammar"]
    BY <1>7 DEF Checked
  <2> HIDE DEF c
  <2>2. c.reason = "grammar" /\ c.len = 0 /\ c.out = q.out /\ c.grammar = q.grammar
    BY <2>1 DEF ReqRecord
  <2>0. \A i : Completes(c, i) <=> Completes(q, i)
    BY <2>2 DEF Completes
  <2>3. /\ \A i \in 1..(n - 2) : ~Completes(c, i)
        /\ Completes(c, n) \/ (n > 1 /\ Completes(c, n - 1))
    BY <1>7, <2>0
  <2>4. Finished(c)
    BY <2>2 DEF Finished
  <2>5. StopIsLast(c)
    BY <2>2, <2>3, <2>4 DEF StopIsLast
  <2> QED BY <2>4, <2>5 DEF c
<1>8. CASE ~q.to_finish /\ ~LimitReached(q) /\ q.grammar # "done" /\ Matches(q, 1, "eos") # {}
  <2> DEFINE e == FirstIn(Matches(q, 1, "eos"))
  <2>1. c = [q EXCEPT !.reason = "eos", !.len = e]
    BY <1>8 DEF Checked, MatchedLen
  <2>2. e \in (n - 1 + 1)..n /\ q.out[e] = "eos"
    BY <1>3, <1>4, <1>8, MatchFacts
  <2> HIDE DEF c, e
  <2>3. e = n
    BY <1>1, <2>2
  <2>4. c.reason = "eos" /\ c.len = n /\ c.out = q.out /\ c.grammar = q.grammar
    BY <2>1, <2>3 DEF ReqRecord
  <2>5. q.out[n] \notin Ordinary
    BY <2>2, <2>3 DEF Ordinary
  <2>6. StopIsLast(c) /\ Finished(c)
    BY <1>1, <2>4, <2>5 DEF StopIsLast, Finished, Completes
  <2> QED BY <2>6 DEF c
<1>9. CASE /\ ~q.to_finish /\ ~LimitReached(q) /\ q.grammar # "done"
           /\ Matches(q, 1, "eos") = {} /\ Matches(q, 1, "nan") # {}
  <2> DEFINE u == FirstIn(Matches(q, 1, "nan"))
             o == [q.out EXCEPT ![u] = "eos"]
  <2>1. c = [q EXCEPT !.out[u] = "eos", !.reason = "nan", !.len = u]
    BY <1>9 DEF Checked
  <2>2. u \in (n - 1 + 1)..n
    BY <1>3, <1>4, <1>9, MatchFacts
  <2> HIDE DEF c, u
  <2>3. u = n /\ u \in 1..n /\ "eos" \in Token
    BY <1>1, <2>2 DEF Token
  <2>4. /\ o \in Seq(Token) /\ Len(o) = n
        /\ \A j \in 1..n : o[j] = IF j = u THEN "eos" ELSE q.out[j]
    BY <1>1, <2>3, ExceptSeq
  <2>5. c.reason = "nan" /\ c.len = u /\ c.out = o /\ c.grammar = q.grammar
    BY <2>1 DEF ReqRecord
  <2> HIDE DEF o
  <2>6. /\ o # <<>> /\ o[n] \notin Ordinary /\ AllOrdinary(o, n - 1)
        /\ \A i \in 1..(n - 2) : o[i] = q.out[i]
    <3>1. o # <<>>
      BY <1>1, <2>4, EmptySeq
    <3>2. o[n] \notin Ordinary
      BY <2>3, <2>4 DEF Ordinary
    <3>3. \A i \in 1..(n - 1) : o[i] = q.out[i] /\ q.out[i] \in Ordinary
      BY <1>1, <1>2, <2>3, <2>4 DEF AllOrdinary
    <3>4. AllOrdinary(o, n - 1)
      BY <3>3 DEF AllOrdinary
    <3>5. \A i \in 1..(n - 2) : i \in 1..(n - 1)
      BY <1>1
    <3> QED BY <3>1, <3>2, <3>3, <3>4, <3>5
  <2>7. \A i \in 1..(n - 2) : ~Completes(c, i)
    BY <2>5, <2>6 DEF Completes
  <2>8. Finished(c) /\ c.reason # "abort" /\ c.len = Len(c.out) /\ Len(c.out) = n
    BY <2>3, <2>4, <2>5 DEF Finished
  <2>9. StopIsLast(c)
    BY <2>5, <2>6, <2>7, <2>8 DEF StopIsLast
  <2> QED BY <2>8, <2>9 DEF c
<1>10. CASE /\ ~q.to_finish /\ ~LimitReached(q) /\ q.grammar # "done"
            /\ Matches(q, 1, "eos") = {} /\ Matches(q, 1, "nan") = {}
  <2>1. c = IF StopStrInTail(q) THEN [q EXCEPT !.reason = "str"] ELSE q
    BY <1>10 DEF Checked
  <2>2. q.out[n] \notin {"eos", "nan"}
    BY <1>1, <1>3, <1>4, <1>10, MatchFacts
  <2>3. CASE StopStrInTail(q)
    <3>1. PICK i \in DOMAIN q.out : q.out[i] = "str"
      BY <2>3 DEF StopStrInTail
    <3>2. q.out[n] \notin Ordinary
      BY <1>1, <1>2, <3>1 DEF Ordinary
    <3>3. c.out = q.out /\ c.len = 0 /\ c.reason = "str" /\ c.grammar = q.grammar
      BY <2>1, <2>3 DEF ReqRecord
    <3> HIDE DEF c
    <3>4. StopIsLast(c) /\ Finished(c)
      BY <1>1, <3>2, <3>3 DEF StopIsLast, Finished, Completes
    <3> QED BY <3>4 DEF c
  <2>4. CASE ~StopStrInTail(q)
    <3>1. n \in 1..n /\ ~(n - n > 2)
      BY <1>1
    <3>2. q.out[n] # "str"
      BY <2>4, <3>1, TailFacts
    <3>3. q.out[n] \in Ordinary
      BY <1>1, <2>2, <3>2 DEF Token, Ordinary
    <3>4. AllOrdinary(q.out, n)
      BY <1>2, <3>3 DEF AllOrdinary
    <3> QED BY <2>1, <2>4, <3>4
  <2> QED BY <2>3, <2>4
<1> QED BY <1>5, <1>6, <1>7, <1>8, <1>9, <1>10

\* One more token on a request that goes on, checked and then told to the grammar.
LEMMA AddedOneFacts ==
  ASSUME LateInv, ~spec_v2, ~Finished(req), NEW token \in Token,
         NEW c, c = Checked([req EXCEPT !.out = @ \o <<token>>], 1)
  PROVE  /\ Finished(c) => StopIsLast(c)
         /\ StopIsLast(Advanced(c, <<token>>)) /\ StopIsLast(Accepted(c, <<token>>))
<1> DEFINE q == [req EXCEPT !.out = @ \o <<token>>]
           k == Len(req.out)
<1>1. /\ req \in ReqRecord /\ req.out \in Seq(Token) /\ k \in Nat /\ req.len = 0
      /\ k < MaxNew /\ MaxNew \in Nat /\ AllOrdinary(req.out, k)
      /\ ~req.finished_output /\ DoneWithin(req, k)
      /\ \A i \in 1..k : Completes(req, i) => i = k /\ req.grammar = "done"
      /\ req.grammar = "done" => k > 0 /\ Completes(req, k)
  <2>1. /\ req \in ReqRecord /\ req.out \in Seq(Token) /\ k \in Nat /\ req.len = 0
        /\ k < MaxNew /\ MaxNew \in Nat /\ AllOrdinary(req.out, k)
        /\ ~req.finished_output /\ DoneWithin(req, k)
        /\ \A i \in 1..k : Completes(req, i) => i = k /\ req.grammar = "done"
    BY LenProperties, OutputAssumption DEF LateInv, OutputInv, ReqInv, ReqRecord, StopIsLast
  <2>2. req.grammar = "done" => req.out # <<>> /\ Completes(req, k)
    BY DEF LateInv, StopIsLast
  <2>3. req.out # <<>> => k > 0
    BY <2>1, EmptySeq
  <2> QED BY <2>1, <2>2, <2>3
<1>2. /\ req.out \o <<token>> \in Seq(Token) /\ Len(req.out \o <<token>>) = k + 1
      /\ \A i \in 1..k : (req.out \o <<token>>)[i] = req.out[i]
      /\ (req.out \o <<token>>)[k + 1] = token
  <2>1. /\ req.out \o <<token>> \in Seq(Token)
        /\ Len(req.out \o <<token>>) = k + Len(<<token>>)
        /\ \A i \in 1..(k + Len(<<token>>)) : (req.out \o <<token>>)[i] =
             IF i <= k THEN req.out[i] ELSE <<token>>[i - k]
    BY <1>1, OneFacts, ConcatProperties
  <2> QED BY <1>1, <2>1, OneFacts
<1>3. /\ q \in ReqRecord /\ q.out = req.out \o <<token>> /\ q.len = 0
      /\ q.reason = req.reason /\ q.grammar = req.grammar /\ ~q.finished_output
  BY <1>1, <1>2 DEF ReqRecord
<1> HIDE DEF q
<1>4. /\ ~Finished(q) /\ q.out # <<>> /\ Len(q.out) = k + 1
      /\ Len(q.out) <= MaxNew /\ AllOrdinary(q.out, Len(q.out) - 1)
  <2>1. q.out # <<>>
    BY <1>1, <1>2, <1>3, EmptySeq
  <2> QED BY <1>1, <1>2, <1>3, <2>1 DEF Finished, AllOrdinary
<1>5. \A i \in 1..k : Completes(q, i) <=> Completes(req, i)
  BY <1>2, <1>3 DEF Completes
<1>6. /\ DoneWithin(q, Len(q.out)) /\ \A i \in 1..(Len(q.out) - 2) : ~Completes(q, i)
      /\ q.grammar = "done" => Len(q.out) > 1 /\ Completes(q, Len(q.out) - 1)
  <2>1. DoneWithin(q, Len(q.out))
    BY <1>1, <1>2, <1>3, <1>4 DEF DoneWithin
  <2>2. \A i \in 1..(Len(q.out) - 2) : ~Completes(q, i)
    BY <1>1, <1>4, <1>5
  <2>3. q.grammar = "done" => Len(q.out) > 1 /\ Completes(q, Len(q.out) - 1)
    BY <1>1, <1>3, <1>4, <1>5
  <2> QED BY <2>1, <2>2, <2>3
<1>7. /\ Finished(c) => StopIsLast(c)
      /\ ~Finished(c) => c = q /\ AllOrdinary(q.out, Len(q.out)) /\ q.grammar # "done"
  BY <1>3, <1>4, <1>6, CheckedOneFacts, GoesOnFacts DEF q
<1>8. CASE Finished(c)
  <2> DEFINE a == Advanced(c, <<token>>)
  <2>1. /\ Accepted(c, <<token>>) = a
        /\ a = c \/ (c.grammar = "live" /\ a = [c EXCEPT !.grammar = "done"])
    BY <1>8, OneFacts, VerdictFacts DEF Accepted, Advanced
  <2>2. c \in ReqRecord
    BY <1>4, OneFacts, AddedFacts DEF LateInv, ReqInv
  <2>3. /\ a.out = c.out /\ a.reason = c.reason /\ a.len = c.len
        /\ \A i : Completes(a, i) <=> Completes(c, i)
    BY <2>1, <2>2 DEF ReqRecord, Completes
  <2> HIDE DEF a
  <2>4. StopIsLast(a)
    BY <1>7, <1>8, <2>3 DEF StopIsLast, Finished
  <2> QED BY <1>7, <2>1, <2>4 DEF a
<1>9. CASE ~Finished(c)
  <2> DEFINE v == Verdict(q, <<token>>)
             n == Len(q.out)
  <2>1. c = q /\ AllOrdinary(q.out, n) /\ q.grammar # "done" /\ n = k + 1 /\ q.out[n] = token
    BY <1>2, <1>3, <1>4, <1>7, <1>9
  <2>2. \A i \in 1..n : Completes(q, i) => i = n
    BY <1>1, <1>3, <1>5, <2>1
  <2>3. /\ v \in {"tok", "end", "bad"} /\ (v # "tok" => q.grammar = "live" /\ token = v)
        /\ v = "tok" => q.grammar # "live" \/ token \notin {"end", "bad"}
    <3>1. <<token>> \in Seq(Token) /\ Len(<<token>>) = 1 /\ <<token>>[1] = token
      BY OneFacts
    <3>2. /\ v \in {"tok", "end", "bad"}
          /\ v # "tok" => q.grammar = "live" /\ \E i \in 1..Len(<<token>>) : <<token>>[i] = v
          /\ v = "tok" => q.grammar # "live"
                             \/ \A i \in 1..Len(<<token>>) : <<token>>[i] \notin {"end", "bad"}
      BY <3>1, VerdictFacts
    <3> HIDE DEF v
    <3> QED BY <3>1, <3>2
  <2>4. CASE v = "end"
    <3>1. Accepted(q, <<token>>) = Advanced(q, <<token>>) /\ Advanced(q, <<token>>) = [q EXCEPT !.grammar = "done"]
      BY <2>4 DEF Accepted, Rejected, Advanced
    <3>0. q.grammar # "none"
      BY <2>3, <2>4
    <3> DEFINE a == Advanced(q, <<token>>)
    <3>2. a.out = q.out /\ a.reason = q.reason /\ a.grammar = "done"
      BY <1>3, <3>1 DEF ReqRecord
    <3> HIDE DEF a
    <3>3. \A i \in 1..n : Completes(a, i) <=> Completes(q, i)
      BY <3>0, <3>2 DEF Completes
    <3>4. Completes(a, n)
      BY <2>1, <2>3, <2>4, <3>2 DEF Completes
    <3>5. StopIsLast(a)
      BY <1>4, <2>1, <2>2, <3>2, <3>3, <3>4 DEF StopIsLast, Finished
    <3> QED BY <1>9, <2>1, <3>1, <3>5 DEF a
  <2>5. CASE v # "end"
    <3>1. \A i \in 1..n : ~Completes(q, i)
      <4>1. ~Completes(q, n)
        BY <1>3, <2>1, <2>3, <2>5 DEF Completes, ReqRecord
      <4> QED BY <2>2, <4>1
    <3>2. Advanced(q, <<token>>) = q /\ Accepted(q, <<token>>) \in {q, [q EXCEPT !.to_finish = TRUE]}
      BY <2>5 DEF Accepted, Rejected, Advanced
    <3> DEFINE a == Accepted(q, <<token>>)
    <3>3. a.out = q.out /\ a.reason = q.reason /\ a.grammar = q.grammar
      BY <1>3, <3>2 DEF ReqRecord
    <3> HIDE DEF a
    <3>4. StopIsLast(q)
      BY <1>4, <2>1, <3>1 DEF StopIsLast
    <3>5. StopIsLast(a)
      BY <1>4, <2>1, <3>1, <3>3 DEF StopIsLast, Finished, Completes
    <3> QED BY <1>9, <2>1, <3>2, <3>4, <3>5 DEF a
  <2> QED BY <2>4, <2>5
<1> QED BY <1>8, <1>9

\* Every action keeps the invariant.
LEMMA LateStep == LateInv /\ [Next]_vars => LateInv'
<1> SUFFICES ASSUME LateInv, [Next]_vars PROVE LateInv'
  OBVIOUS
<1>0. OutputInv /\ OutputInv' /\ Bounded(req)
  BY StepInv DEF LateInv
<1>1. SUFFICES Bounded(req') /\ (~spec_v2' => StopIsLast(req'))
  BY <1>0 DEF LateInv
<1>2. /\ req \in ReqRecord /\ req.out \in Seq(Token) /\ Len(req.out) \in Nat /\ MaxPath \in Nat \ {0}
  BY <1>0, LenProperties, OutputAssumption DEF OutputInv, ReqInv, ReqRecord
<1>3. CASE Abort
  <2>1. /\ spec_v2' = spec_v2 /\ req'.out = req.out /\ req'.len = req.len
        /\ req'.reason = req.reason /\ req'.grammar = req.grammar /\ req'.to_finish
    BY <1>2, <1>3 DEF Abort, ReqRecord
  <2>2. Bounded(req')
    BY <1>0, <2>1 DEF Bounded, Finished, Completes
  <2>3. ~spec_v2' => StopIsLast(req')
    BY <2>1 DEF LateInv, StopIsLast, Finished, Completes
  <2> QED BY <2>2, <2>3
<1>4. ASSUME NEW token \in Alphabet(req), NEW held \in BOOLEAN, Prefill(token, held)
      PROVE  Bounded(req') /\ (~spec_v2' => StopIsLast(req'))
  <2> DEFINE c == Checked([req EXCEPT !.out = @ \o <<token>>], 1)
             a == Accepted(c, <<token>>)
  <2>1. /\ req.out = <<>> /\ ~Finished(req) /\ token \in Token /\ spec_v2' = spec_v2
    BY <1>0, <1>4 DEF Prefill, OutputInv, Alphabet
  <2>2. Streamed(a, held)
    BY <1>0, <1>4, <2>1, FirstToken DEF Prefill
  <2>3. Len(<<token>>) \in 1..MaxPath /\ <<token>> \in Seq(Token) /\ <<token>> # <<>> /\ Len(<<token>>) = 1
    BY <1>2, <2>1, OneFacts
  <2>4. Bounded(a)
    BY <1>0, <2>1, <2>3, AddedBounded
  <2>5. ~spec_v2 => StopIsLast(a)
    BY <2>1, AddedOneFacts
  <2>6. a \in ReqRecord
    BY <1>0, <2>1, <2>3, AddedAccepted DEF ReqInv
  <2> HIDE DEF a
  <2> QED BY <2>1, <2>2, <2>4, <2>5, <2>6, StreamedKeeps
<1>5. CASE DecodeV1
  BY <1>0, <1>5 DEF DecodeV1, LateInv
<1>6. CASE FillToken
  <2> DEFINE t == Head(left)
             c == Checked([req EXCEPT !.out = @ \o <<t>>], 1)
             a == IF Finished(c) THEN c ELSE Advanced(c, <<t>>)
  <2>1. /\ t \in Token /\ ~Finished(req) /\ filling /\ Append(req.out, t) = req.out \o <<t>>
    BY <1>0, <1>6, NextTokenOf
  <2>2. req' = a /\ ~spec_v2 /\ spec_v2' = spec_v2
    BY <1>0, <1>6, <2>1 DEF FillToken, OutputInv
  <2> HIDE DEF t
  <2>3. Len(<<t>>) \in 1..MaxPath /\ <<t>> \in Seq(Token) /\ Len(<<t>>) = 1
    BY <1>2, <2>1, OneFacts
  <2>4. Bounded(a)
    BY <1>0, <2>1, <2>3, AddedBounded
  <2>5. StopIsLast(a)
    BY <2>1, <2>2, AddedOneFacts
  <2> QED BY <2>2, <2>4, <2>5
<1>7. ASSUME NEW held \in BOOLEAN, EndFill(held)
      PROVE  Bounded(req') /\ (~spec_v2' => StopIsLast(req'))
  <2> DEFINE c == Checked(req, 1)
             k == Len(req.out)
  <2>1. Streamed(c, held) /\ ~spec_v2 /\ spec_v2' = spec_v2 /\ req.out # <<>> /\ StopIsLast(req)
    BY <1>0, <1>7 DEF EndFill, OutputInv, LateInv
  <2>2. CASE Finished(req)
    <3>1. c = req
      BY <2>2 DEF Checked
    <3> QED BY <1>0, <1>2, <2>1, <3>1, StreamedKeeps
  <2>3. CASE ~Finished(req)
    <3>1. /\ req.len = 0 /\ k < MaxNew /\ Clean(req.out, k) /\ ~req.finished_output
          /\ DoneWithin(req, k) /\ MaxNew \in Nat /\ AllOrdinary(req.out, k)
      BY <1>0, <2>1, <2>3, OutputAssumption DEF OutputInv, ReqInv, StopIsLast
    <3>2. /\ \A i \in 1..k : Completes(req, i) => i = k
          /\ req.grammar = "done" => Completes(req, k)
      BY <2>1, <2>3 DEF StopIsLast
    <3>3. k > 0 /\ 1 \in 1..k /\ k \in 0..k /\ k - 1 <= k /\ k <= MaxNew
      BY <1>2, <2>1, <3>1, EmptySeq
    <3>4. AllOrdinary(req.out, k - 1) /\ \A i \in 1..(k - 2) : ~Completes(req, i)
      BY <1>2, <3>1, <3>2 DEF AllOrdinary
    <3>5. /\ Finished(c) => StopIsLast(c)
          /\ ~Finished(c) => c = req
      BY <1>2, <2>1, <2>3, <3>1, <3>2, <3>3, <3>4, CheckedOneFacts
    <3>6. \A i \in 1..k : Completes(req, i) =>
            req.to_finish \/ (req.grammar = "done" /\ k - i < MaxPath)
      BY <1>0, <2>3 DEF Bounded
    <3>7. Finished(c) => Bounded(c)
      <4>1. k - k <= MaxPath
        BY <1>2
      <4> QED BY <1>2, <2>3, <3>1, <3>3, <3>6, <4>1, CheckedBounded
    <3>8. c \in ReqRecord
      BY <1>2, <2>3, <3>1, <3>3, CheckedFacts DEF ReqInv
    <3> HIDE DEF c
    <3> QED BY <1>0, <2>1, <3>5, <3>7, <3>8, StreamedKeeps
  <2> QED BY <2>2, <2>3
<1>8. ASSUME NEW held \in BOOLEAN, DecodeV2(held)
      PROVE  Bounded(req') /\ (~spec_v2' => StopIsLast(req'))
  <2>1. PICK path \in AcceptedPath :
          Streamed(Accepted(Checked([req EXCEPT !.out = @ \o path], Len(path)), path), held)
    BY <1>8 DEF DecodeV2
  <2> DEFINE a == Accepted(Checked([req EXCEPT !.out = @ \o path], Len(path)), path)
  <2>2. /\ path \in Seq(Token) /\ path # <<>> /\ Len(path) \in 1..MaxPath
        /\ ~Finished(req) /\ spec_v2'
    BY <1>8, PathFacts DEF DecodeV2
  <2>3. Bounded(a) /\ a \in ReqRecord
    BY <1>0, <2>2, AddedBounded, AddedAccepted DEF ReqInv
  <2>4. Streamed(a, held)
    BY <2>1
  <2> HIDE DEF a
  <2> QED BY <2>2, <2>3, <2>4, StreamedKeeps
<1>9. ASSUME NEW held \in BOOLEAN, LateResult(held)
      PROVE  Bounded(req') /\ (~spec_v2' => StopIsLast(req'))
  <2>1. Streamed(req, held) /\ spec_v2'
    BY <1>9 DEF LateResult
  <2> QED BY <1>0, <1>2, <2>1, StreamedKeeps
<1>10. CASE UNCHANGED vars
  BY <1>0, <1>10 DEF vars, LateInv
<1> QED BY <1>3, <1>4, <1>5, <1>6, <1>7, <1>8, <1>9, <1>10 DEF Next

\* How late a stop is noticed, in every behaviour.
THEOREM LateInvariantHolds == Spec => []LateInv
<1>1. Init => LateInv
  <2> SUFFICES ASSUME Init PROVE LateInv
    OBVIOUS
  <2>1. req.out = <<>> /\ Len(req.out) = 0 /\ ~Finished(req) /\ req.grammar # "done"
    BY EmptySeq DEF Init, Finished
  <2> QED BY <2>1, InitInv DEF LateInv, StopIsLast, AllOrdinary, Bounded
<1> QED BY <1>1, LateStep, PTL DEF Spec

\* With the synchronous worker no stop condition is passed over but a grammar the
\* newest token completed; with the overlap worker none but a stop string with more
\* than two tokens behind it, whatever the limit, the paths and the tail (check_finished,
\* tail_str).
THEOREM StopNoticedHolds == Spec => []StopNoticed
<1>1. LateInv => StopNoticed
  <2> SUFFICES ASSUME LateInv, ~Finished(req)
               PROVE  /\ \A i \in Stopping(req) :
                           spec_v2 /\ req.out[i] = "str" /\ Len(req.out) - i > 2
                      /\ ~spec_v2 => \A i \in 1..(Len(req.out) - 1) : ~Completes(req, i)
    BY DEF StopNoticed
  <2>1. /\ req.out \in Seq(Token) /\ Len(req.out) \in Nat /\ DOMAIN req.out = 1..Len(req.out)
        /\ Len(req.out) < MaxNew /\ MaxNew \in Nat /\ Clean(req.out, Len(req.out))
    BY LenProperties, OutputAssumption DEF LateInv, OutputInv, ReqInv, ReqRecord
  <2>2. ASSUME NEW i \in Stopping(req)
        PROVE  spec_v2 /\ req.out[i] = "str" /\ Len(req.out) - i > 2
    <3>1. i \in 1..Len(req.out) /\ req.out[i] = "str"
      BY <2>1 DEF Stopping, Clean
    <3>2. Len(req.out) - i > 2
      BY <3>1 DEF LateInv, Bounded
    <3>3. spec_v2
      <4> SUFFICES ASSUME ~spec_v2 PROVE FALSE
        OBVIOUS
      <4>1. req.out[i] \in Ordinary
        BY <3>1 DEF LateInv, StopIsLast, AllOrdinary
      <4> QED BY <3>1, <4>1 DEF Ordinary
    <3> QED BY <3>1, <3>2, <3>3
  <2>3. ASSUME ~spec_v2, NEW i \in 1..(Len(req.out) - 1) PROVE ~Completes(req, i)
    BY <2>1, <2>3 DEF LateInv, StopIsLast
  <2> QED BY <2>2, <2>3
<1> QED BY <1>1, LateInvariantHolds, PTL

\* With the synchronous worker what is handed out ends with the first token that
\* meets a stop condition; a completed grammar is noticed at its token or at the next
\* (output_ids_through_stop, _fill_requests).
THEOREM StopsAtFirstHolds == Spec => []StopsAtFirst
<1>1. LateInv => StopsAtFirst
  <2> SUFFICES ASSUME LateInv, ~spec_v2, Finished(req), req.reason # "abort"
               PROVE  LET n == Len(ThroughStop(req))
                      IN  /\ \/ n \in Stopping(req)
                             \/ \E i \in {n - 1, n} \cap DOMAIN req.out : Completes(req, i)
                          /\ \A i \in 1..(n - 1) : i \notin Stopping(req)
                          /\ \A i \in 1..(n - 2) : ~Completes(req, i)
    BY DEF StopsAtFirst
  <2> DEFINE n == Len(req.out)
  <2>1. /\ req \in ReqRecord /\ req.out \in Seq(Token) /\ n \in Nat /\ DOMAIN req.out = 1..n
        /\ MaxNew \in Nat /\ req.len <= Len(req.out)
    BY LenProperties, OutputAssumption DEF LateInv, OutputInv, ReqInv, ReqRecord
  <2>2. /\ req.out # <<>> /\ req.len \in {0, n} /\ n <= MaxNew /\ AllOrdinary(req.out, n - 1)
        /\ \A i \in 1..(n - 2) : ~Completes(req, i)
        /\ \/ req.out[n] \notin Ordinary \/ n = MaxNew
           \/ Completes(req, n)
           \/ n > 1 /\ Completes(req, n - 1)
    BY DEF LateInv, StopIsLast
  <2>3. n > 0 /\ req.out[n] \in Token
    <3>1. n > 0
      BY <2>1, <2>2, EmptySeq
    <3> QED BY <2>1, <3>1, ElementOfSeq
  <2>4. Len(ThroughStop(req)) = n
    BY <2>1, <2>2, ThroughStopFacts
  <2>5. req.out[n] \notin Ordinary \/ n = MaxNew => n \in Stopping(req)
    BY <2>1, <2>3 DEF Stopping, Ordinary, Token
  <2>6. \A i \in 1..(n - 1) : i \notin Stopping(req)
    BY <2>1, <2>2 DEF Stopping, AllOrdinary, Ordinary
  <2>7. Completes(req, n) \/ (n > 1 /\ Completes(req, n - 1)) =>
          \E i \in {n - 1, n} \cap DOMAIN req.out : Completes(req, i)
    <3>1. n \in DOMAIN req.out /\ (n > 1 => n - 1 \in DOMAIN req.out)
      BY <2>1, <2>3
    <3> QED BY <3>1
  <2> HIDE DEF n
  <2> QED BY <2>2, <2>4, <2>5, <2>6, <2>7
<1> QED BY <1>1, LateInvariantHolds, PTL

\* With one check per path, fewer than a path of tokens is handed out behind a stop
\* token and fewer than two behind the token that completed the grammar, whatever
\* the order in which the conditions are met (check_finished).
THEOREM OvershootHolds == Spec => []OvershootBounded
<1>1. LateInv => OvershootBounded
  <2> SUFFICES ASSUME LateInv, Finished(req), req.reason # "abort",
                      NEW i \in 1..Len(ThroughStop(req))
               PROVE  LET n == Len(ThroughStop(req))
                      IN  /\ req.out[i] \in {"eos", "nan"} => n - i < MaxPath
                          /\ Completes(req, i) => n - i < 2 * MaxPath
    BY DEF OvershootBounded
  <2>1. /\ req \in ReqRecord /\ Len(req.out) \in Nat /\ req.len \in Nat
        /\ req.len <= Len(req.out) /\ MaxPath \in Nat
    BY LenProperties, OutputAssumption DEF LateInv, OutputInv, ReqInv, ReqRecord
  <2>2. Len(ThroughStop(req)) \in Nat /\ Len(ThroughStop(req)) <= Len(req.out)
    BY <2>1, ThroughStopFacts
  <2>3. /\ req.out[i] \in {"eos", "nan"} => Len(req.out) - i < MaxPath
        /\ Completes(req, i) => Len(req.out) - i < 2 * MaxPath
    <3>1. i \in 1..Len(req.out)
      BY <2>1, <2>2
    <3> QED BY <3>1 DEF LateInv, Bounded
  <2> QED BY <2>1, <2>2, <2>3
<1> QED BY <1>1, LateInvariantHolds, PTL

-----------------------------------------------------------------------------
(* Packing the paths. *)

Lens == [Reqs -> 1..PathLen]

\* sum[r] is the length of the first r paths, one behind the other.
Sums(lens, sum) ==
  /\ sum \in [0..Bs -> Nat] /\ sum[0] = 0
  /\ \A i \in 0..(Bs - 1) : sum[i + 1] = sum[i] + lens[i + 1]

LEMMA SumsExist ==
  ASSUME NEW lens \in Lens
  PROVE  \E sum : Sums(lens, sum)
<1> DEFINE Is(m, f) == f[0] = 0 /\ \A i \in 0..(m - 1) : f[i + 1] = f[i] + lens[i + 1]
           M == {m \in 0..Bs : \E f \in [0..Bs -> Nat] : Is(m, f)}
<1>0. Bs \in Nat /\ PathLen \in Nat
  BY HostCopyAssumption
<1>1. 0 \in M
  <2> DEFINE z == [i \in 0..Bs |-> 0]
  <2>1. z \in [0..Bs -> Nat] /\ Is(0, z)
    BY <1>0
  <2>2. 0 \in 0..Bs
    BY <1>0
  <2> HIDE DEF z, Is
  <2> QED BY <2>1, <2>2
<1>2. ASSUME NEW m \in 0..(Bs - 1), m \in M PROVE m + 1 \in M
  <2>1. PICK f \in [0..Bs -> Nat] : Is(m, f)
    BY <1>2
  <2> DEFINE g == [f EXCEPT ![m + 1] = f[m] + lens[m + 1]]
  <2>2. m \in 0..Bs /\ m + 1 \in 0..Bs /\ m + 1 \in Reqs /\ lens[m + 1] \in Nat /\ m # m + 1
    BY <1>0 DEF Lens, Reqs
  <2>3. g \in [0..Bs -> Nat] /\ g[m + 1] = f[m] + lens[m + 1] /\ \A k \in 0..m : g[k] = f[k]
    <3>1. \A k \in 0..m : k \in 0..Bs /\ k # m + 1
      BY <1>0
    <3> QED BY <2>2, <3>1
  <2> HIDE DEF g
  <2>4. ASSUME NEW i \in 0..m PROVE g[i + 1] = g[i] + lens[i + 1]
    <3>1. CASE i = m
      BY <2>3, <3>1
    <3>2. CASE i # m
      <4>1. i \in 0..(m - 1) /\ i + 1 \in 0..m
        BY <3>2
      <4> QED BY <2>1, <2>3, <4>1
    <3> QED BY <3>1, <3>2
  <2>5. Is(m + 1, g)
    <3>1. g[0] = 0 /\ (m + 1) - 1 = m
      BY <2>1, <2>3
    <3> QED BY <2>4, <3>1
  <2> QED BY <2>2, <2>3, <2>5
<1> HIDE DEF M
<1>3. Bs \in M
  <2>1. 0..Bs \subseteq M
    BY <1>0, <1>1, <1>2, UpTo
  <2> QED BY <1>0, <2>1
<1> QED BY <1>3 DEF M, Sums

\* Ends is the function that satisfies its recursion.
LEMMA EndsSums ==
  ASSUME NEW lens \in Lens
  PROVE  \E sum : Sums(lens, sum) /\ Ends(lens) = [r \in Reqs |-> sum[r]]
<1>0. Bs \in Nat /\ PathLen \in Nat
  BY HostCopyAssumption
<1>1. PICK h : Sums(lens, h)
  BY SumsExist
<1> DEFINE Def(f) == [r \in 0..Bs |-> IF r = 0 THEN 0 ELSE f[r - 1] + lens[r]]
           sum == CHOOSE f : f = Def(f)
<1>2. h = Def(h)
  <2>1. ASSUME NEW r \in 0..Bs PROVE h[r] = IF r = 0 THEN 0 ELSE h[r - 1] + lens[r]
    <3>1. CASE r = 0
      BY <1>1, <3>1 DEF Sums
    <3>2. CASE r # 0
      <4>1. r - 1 \in 0..(Bs - 1) /\ (r - 1) + 1 = r
        BY <1>0, <3>2
      <4> QED BY <1>1, <3>2, <4>1 DEF Sums
    <3> QED BY <3>1, <3>2
  <2>2. DOMAIN h = 0..Bs /\ h = [r \in DOMAIN h |-> h[r]]
    BY <1>1 DEF Sums
  <2> QED BY <2>1, <2>2
<1>3. Ends(lens) = [r \in Reqs |-> sum[r]]
  BY Zenon DEF Ends
<1>4. sum = Def(sum)
  <2> HIDE DEF Def
  <2> QED BY <1>2
<1> HIDE DEF sum
<1>5. sum[0] = 0 /\ \A i \in 0..(Bs - 1) : sum[i + 1] = sum[i] + lens[i + 1]
  <2>1. \A r \in 0..Bs : sum[r] = IF r = 0 THEN 0 ELSE sum[r - 1] + lens[r]
    BY <1>4
  <2>2. 0 \in 0..Bs /\ \A i \in 0..(Bs - 1) : i + 1 \in 0..Bs /\ i + 1 # 0 /\ (i + 1) - 1 = i
    BY <1>0
  <2> QED BY <2>1, <2>2
<1>6. sum \in [0..Bs -> Nat]
  <2> DEFINE M == {m \in 0..Bs : sum[m] \in Nat}
  <2>1. 0 \in M
    BY <1>0, <1>5
  <2>2. ASSUME NEW m \in 0..(Bs - 1), m \in M PROVE m + 1 \in M
    <3>1. m + 1 \in 0..Bs /\ m + 1 \in Reqs /\ lens[m + 1] \in Nat
      BY <1>0 DEF Lens, Reqs
    <3>2. sum[m + 1] = sum[m] + lens[m + 1] /\ sum[m] \in Nat
      BY <1>5, <2>2
    <3> QED BY <3>1, <3>2
  <2> HIDE DEF M
  <2>3. 0..Bs \subseteq M
    BY <1>0, <2>1, <2>2, UpTo
  <2>4. \A m \in 0..Bs : sum[m] \in Nat
    BY <2>3 DEF M
  <2>5. DOMAIN sum = 0..Bs /\ sum = [r \in DOMAIN sum |-> sum[r]]
    BY <1>4
  <2> QED BY <2>4, <2>5
<1> QED BY <1>3, <1>5, <1>6 DEF Sums

LEMMA SumsGrow ==
  ASSUME NEW lens \in Lens, NEW sum, Sums(lens, sum)
  PROVE  \A j \in 0..Bs : \A i \in 0..j : sum[i] <= sum[j]
<1> DEFINE M == {j \in 0..Bs : \A i \in 0..j : sum[i] <= sum[j]}
<1>0. Bs \in Nat /\ PathLen \in Nat /\ \A i \in 0..Bs : sum[i] \in Nat
  BY HostCopyAssumption DEF Sums
<1>1. 0 \in M
  BY <1>0
<1>2. ASSUME NEW j \in 0..(Bs - 1), j \in M PROVE j + 1 \in M
  <2>1. /\ j \in 0..Bs /\ j + 1 \in 0..Bs /\ lens[j + 1] \in Nat
        /\ sum[j + 1] = sum[j] + lens[j + 1]
    BY <1>0 DEF Lens, Reqs, Sums
  <2>2. ASSUME NEW i \in 0..(j + 1) PROVE sum[i] <= sum[j + 1]
    <3>1. CASE i = j + 1
      BY <1>0, <2>1, <3>1
    <3>2. CASE i # j + 1
      <4>1. i \in 0..j /\ i \in 0..Bs
        BY <1>0, <3>2
      <4>2. sum[i] <= sum[j]
        BY <1>2, <4>1
      <4> QED BY <1>0, <2>1, <4>1, <4>2
    <3> QED BY <3>1, <3>2
  <2> QED BY <2>1, <2>2
<1> HIDE DEF M
<1>3. 0..Bs \subseteq M
  BY <1>0, <1>1, <1>2, UpTo
<1> QED BY <1>3 DEF M

\* Every place of the flat list is a place of one path.
LEMMA Covered ==
  ASSUME NEW lens \in Lens, NEW sum, Sums(lens, sum), NEW s \in 0..(sum[Bs] - 1)
  PROVE  \E r \in Reqs : \E i \in 1..lens[r] : s = sum[r - 1] + i - 1
<1> DEFINE Found(m) == \E r \in 1..m : \E i \in 1..lens[r] : s = sum[r - 1] + i - 1
           M == {m \in 0..Bs : s < sum[m] => Found(m)}
<1>0. Bs \in Nat /\ PathLen \in Nat /\ (\A i \in 0..Bs : sum[i] \in Nat) /\ s \in Nat
  BY HostCopyAssumption DEF Sums
<1>1. 0 \in M
  BY <1>0 DEF Sums
<1>2. ASSUME NEW m \in 0..(Bs - 1), m \in M PROVE m + 1 \in M
  <2>1. /\ m \in 0..Bs /\ m + 1 \in 0..Bs /\ lens[m + 1] \in Nat
        /\ sum[m + 1] = sum[m] + lens[m + 1]
    BY <1>0 DEF Lens, Reqs, Sums
  <2>2. ASSUME s < sum[m + 1] PROVE Found(m + 1)
    <3>1. CASE s < sum[m]
      <4>1. PICK r \in 1..m : \E i \in 1..lens[r] : s = sum[r - 1] + i - 1
        BY <1>2, <3>1
      <4>2. r \in 1..(m + 1)
        OBVIOUS
      <4> QED BY <4>1, <4>2
    <3>2. CASE ~(s < sum[m])
      <4> DEFINE i == s - sum[m] + 1
      <4>1. i \in 1..lens[m + 1] /\ s = sum[(m + 1) - 1] + i - 1 /\ m + 1 \in 1..(m + 1)
        BY <1>0, <2>1, <2>2, <3>2
      <4> QED BY <4>1
    <3> QED BY <3>1, <3>2
  <2> QED BY <2>1, <2>2
<1> HIDE DEF M
<1>3. Bs \in M
  <2>1. 0..Bs \subseteq M
    BY <1>0, <1>1, <1>2, UpTo
  <2> QED BY <1>0, <2>1
<1>4. s < sum[Bs] /\ Bs \in 0..Bs
  BY <1>0
<1> QED BY <1>3, <1>4 DEF M, Reqs

\* The flat list of the accepted ids: path r starts behind sum[r - 1] ids.
LEMMA FlatPaths ==
  ASSUME NEW p, NEW lens \in Lens, NEW sum, Sums(lens, sum)
  PROVE  /\ Len(Flat(p, lens)) = sum[Bs]
         /\ \A r \in Reqs : \A i \in 1..lens[r] : Flat(p, lens)[sum[r - 1] + i] = <<p, r, i>>
<1> DEFINE S == {p} \X Reqs \X Nat
           a == [r \in Reqs |-> Path(p, lens, r)]
<1>0. /\ Bs \in Nat /\ Bs >= 1 /\ PathLen \in Nat /\ (\A i \in 0..Bs : sum[i] \in Nat)
      /\ sum[0] = 0 /\ \A i \in 0..(Bs - 1) : sum[i + 1] = sum[i] + lens[i + 1]
  BY HostCopyAssumption DEF Sums
<1>1. \A r \in Reqs : lens[r] \in Nat
  BY <1>0 DEF Lens
<1>2. ASSUME NEW r \in Reqs
      PROVE  /\ a[r] \in Seq(S) /\ Len(a[r]) = lens[r]
             /\ \A i \in 1..lens[r] : a[r][i] = <<p, r, i>>
  <2>1. a[r] \in [1..lens[r] -> S] /\ \A i \in 1..lens[r] : a[r][i] = <<p, r, i>>
    BY <1>1 DEF Path
  <2> QED BY <1>1, <2>1, ListOf
<1>3. a \in [1..Bs -> Seq(S)]
  BY <1>2 DEF Reqs
<1> HIDE DEF a, S
<1>4. PICK f : Runs(S, Bs, a, f) /\ FlattenSeq(a) = f[Bs]
  BY <1>0, <1>3, FlattenRuns
<1> DEFINE Right(m, l) == /\ Len(l) = sum[m]
                          /\ \A r \in 1..m : \A i \in 1..lens[r] : l[sum[r - 1] + i] = <<p, r, i>>
           M == {m \in 0..(Bs - 1) : Right(m + 1, f[m + 1])}
<1>5. 0 \in M
  <2>1. 0 \in 0..(Bs - 1) /\ 1 \in Reqs /\ f[1] = a[1] /\ sum[1] = lens[1] /\ lens[1] \in Nat
    BY <1>0, <1>1, <1>4 DEF Reqs, Runs
  <2>2. Right(1, f[1])
    <3>1. ASSUME NEW r \in 1..1, NEW i \in 1..lens[r] PROVE f[1][sum[r - 1] + i] = <<p, r, i>>
      <4>1. r = 1 /\ sum[r - 1] + i = i
        BY <1>0, <2>1
      <4> QED BY <1>2, <2>1, <4>1
    <3> QED BY <1>2, <2>1, <3>1
  <2>3. 0 + 1 = 1
    OBVIOUS
  <2> HIDE DEF Right
  <2> QED BY <2>1, <2>2, <2>3
<1>6. ASSUME NEW m \in 0..((Bs - 1) - 1), m \in M PROVE m + 1 \in M
  <2> DEFINE n == m + 1
             u == f[n + 1]
  <2>1. /\ n \in 1..(Bs - 1) /\ n \in 1..Bs /\ n + 1 \in Reqs /\ n \in 0..(Bs - 1)
        /\ n \in 0..Bs /\ n \in Nat
    BY <1>0 DEF Reqs
  <2>2. f[n] \in Seq(S) /\ u = f[n] \o a[n + 1] /\ Right(n, f[n])
    BY <1>4, <1>6, <2>1 DEF Runs
  <2>3. Joined(S, f[n], a[n + 1], u)
    BY <1>2, <2>1, <2>2, ConcatJoins
  <2> HIDE DEF n, u
  <2>4. Len(u) = sum[n + 1]
    BY <1>0, <1>2, <2>1, <2>2, <2>3 DEF Joined
  <2>5. ASSUME NEW r \in 1..(n + 1), NEW i \in 1..lens[r] PROVE u[sum[r - 1] + i] = <<p, r, i>>
    <3>1. CASE r = n + 1
      <4>1. sum[r - 1] = Len(f[n])
        BY <2>1, <2>2, <3>1
      <4> QED BY <1>2, <2>1, <2>3, <3>1, <4>1 DEF Joined
    <3>2. CASE r # n + 1
      <4>1. r \in 1..n /\ r - 1 \in 0..(Bs - 1) /\ (r - 1) + 1 = r /\ r \in 0..Bs /\ r \in 0..n
            /\ r - 1 \in 0..Bs /\ r \in Reqs
        BY <1>0, <2>1, <3>2 DEF Reqs
      <4>2. sum[r] = sum[r - 1] + lens[r] /\ sum[r] <= sum[n] /\ sum[n] \in Nat /\ sum[r] \in Nat
        BY <1>0, <2>1, <4>1, SumsGrow
      <4>3. sum[r - 1] + i \in 1..Len(f[n])
        <5>1. sum[r - 1] \in Nat /\ lens[r] \in Nat /\ Len(f[n]) = sum[n]
          BY <1>0, <1>1, <2>2, <4>1
        <5>2. i \in Nat /\ 1 <= i /\ i <= lens[r]
          BY <5>1
        <5> QED BY <4>2, <5>1, <5>2, SMTT(30)
      <4> QED BY <2>2, <2>3, <4>1, <4>3 DEF Joined
    <3> QED BY <3>1, <3>2
  <2>6. Right(n + 1, u)
    BY <2>4, <2>5
  <2> QED BY <2>1, <2>6 DEF n, u
<1> HIDE DEF M
<1>7. Right(Bs, f[Bs])
  <2>1. Bs - 1 \in Nat /\ (Bs - 1) + 1 = Bs /\ Bs - 1 \in 0..(Bs - 1)
    BY <1>0
  <2>2. 0..(Bs - 1) \subseteq M
    BY <1>5, <1>6, <2>1, UpTo
  <2>3. Bs - 1 \in M
    BY <2>1, <2>2
  <2> QED BY <2>1, <2>3 DEF M
<1>8. Flat(p, lens) = f[Bs]
  BY <1>4 DEF Flat, a
<1> QED BY <1>7, <1>8 DEF Reqs

\* Rows of Stride places do not overlap.
LEMMA RowApart ==
  ASSUME NEW r \in Reqs, NEW i \in 1..Stride, NEW q \in Reqs, NEW j \in 1..Stride,
         (r - 1) * Stride + i = (q - 1) * Stride + j
  PROVE  r = q /\ i = j
<1>0. Stride \in Nat /\ Bs \in Nat /\ Stride >= 1
  BY HostCopyAssumption
<1>1. ASSUME NEW x \in Reqs, NEW y \in Reqs, x < y
      PROVE  (x - 1) * Stride + Stride <= (y - 1) * Stride
  <2> DEFINE d == y - 1 - x
  <2>1. d \in Nat /\ y - 1 = (x - 1) + 1 + d /\ x - 1 \in Nat
    BY <1>0, <1>1 DEF Reqs
  <2> HIDE DEF d
  <2>2. ((x - 1) + 1 + d) * Stride = (x - 1) * Stride + Stride + d * Stride /\ d * Stride >= 0
    BY <1>0, <2>1
  <2>3. (x - 1) * Stride \in Nat /\ d * Stride \in Nat
    BY <1>0, <2>1
  <2> QED BY <1>0, <2>1, <2>2, <2>3
<1>2. (r - 1) * Stride \in Int /\ (q - 1) * Stride \in Int
  BY <1>0 DEF Reqs
<1>3. r = q
  <2>1. CASE r < q
    BY <1>0, <1>1, <1>2, <2>1
  <2>2. CASE q < r
    BY <1>0, <1>1, <1>2, <2>2
  <2> QED BY <1>0, <2>1, <2>2 DEF Reqs
<1> QED BY <1>0, <1>2, <1>3

\* Id i of path r, the id at place sum[r - 1] + i - 1 of the flat list, goes to place i of row r.
LEMMA DestinationOf ==
  ASSUME NEW lens \in Lens, NEW sum, Sums(lens, sum), Ends(lens) = [r \in Reqs |-> sum[r]],
         NEW r \in Reqs, NEW i \in 1..lens[r]
  PROVE  Destination(lens, sum[r - 1] + i - 1) = (r - 1) * Stride + i - 1
<1> DEFINE s == sum[r - 1] + i - 1
<1>0. /\ Bs \in Nat /\ Stride \in Nat /\ (\A k \in 0..Bs : sum[k] \in Nat) /\ lens[r] \in Nat
      /\ \A k \in 0..(Bs - 1) : sum[k + 1] = sum[k] + lens[k + 1]
  <2>1. Bs \in Nat /\ Stride \in Nat /\ PathLen \in Nat
    BY HostCopyAssumption
  <2>2. lens[r] \in Nat
    BY <2>1 DEF Lens
  <2>3. /\ \A k \in 0..Bs : sum[k] \in Nat
        /\ \A k \in 0..(Bs - 1) : sum[k + 1] = sum[k] + lens[k + 1]
    BY DEF Sums
  <2> QED BY <2>1, <2>2, <2>3
<1>1. r \in 0..Bs /\ r - 1 \in 0..(Bs - 1) /\ r - 1 \in 0..Bs /\ (r - 1) + 1 = r /\ r \in Nat
  BY <1>0 DEF Reqs
<1>2. sum[r] = sum[r - 1] + lens[r] /\ sum[r - 1] \in Nat
  BY <1>0, <1>1
<1>3. {q \in Reqs : Ends(lens)[q] <= s} = 1..(r - 1)
  <2>1. ASSUME NEW q \in Reqs, q \in 1..(r - 1) PROVE sum[q] <= s
    <3>1. q \in 0..(r - 1) /\ q \in 0..Bs
      BY <1>0, <1>1, <2>1
    <3>2. sum[q] <= sum[r - 1] /\ sum[q] \in Nat
      BY <1>0, <1>1, <3>1, SumsGrow
    <3> QED BY <1>2, <3>2
  <2>2. ASSUME NEW q \in Reqs, q \notin 1..(r - 1) PROVE ~(sum[q] <= s)
    <3>1. q \in 0..Bs /\ r \in 0..q
      BY <1>0, <1>1, <2>2 DEF Reqs
    <3>2. sum[r] <= sum[q] /\ sum[q] \in Nat
      BY <1>0, <3>1, SumsGrow
    <3> QED BY <1>0, <1>2, <3>2
  <2>3. 1..(r - 1) \subseteq Reqs
    BY <1>0, <1>1 DEF Reqs
  <2> HIDE DEF s
  <2> QED BY <2>1, <2>2, <2>3
<1>4. Row(Ends(lens), s) = r - 1
  <2>1. Cardinality(1..(r - 1)) = r - 1
    <3>1. Cardinality(1..(r - 1)) = IF 1 > r - 1 THEN 0 ELSE (r - 1) - 1 + 1
      BY <1>1, FS_Interval
    <3> QED BY <1>1, <3>1
  <2> QED BY <1>3, <2>1 DEF Row
<1>5. Destination(lens, s) = (r - 1) * Stride + s - (sum[r] - lens[r])
  <2>1. Ends(lens)[(r - 1) + 1] = sum[r] /\ lens[(r - 1) + 1] = lens[r]
    BY <1>1
  <2> HIDE DEF s
  <2> QED BY <1>4, <2>1 DEF Destination
<1>6. (r - 1) * Stride \in Int /\ s - (sum[r] - lens[r]) = i - 1 /\ s \in Int
  BY <1>0, <1>1, <1>2
<1> QED BY <1>0, <1>1, <1>2, <1>5, <1>6

\* The rows that _pack_verified_ids_for_scheduler makes begin with the paths.
LEMMA PackedRows ==
  ASSUME NEW p, NEW lens \in Lens, NEW r \in Reqs, NEW i \in 1..lens[r]
  PROVE  /\ (r - 1) * Stride + i \in 1..(Bs * Stride)
         /\ PackVerifiedIds(Flat(p, lens), lens)[(r - 1) * Stride + i] = <<p, r, i>>
<1> DEFINE flat == Flat(p, lens)
           x == (r - 1) * Stride + i
           from == {s \in 0..(Len(flat) - 1) : Destination(lens, s) = x - 1}
<1>0. /\ Bs \in Nat /\ Stride \in Nat /\ Stride >= 1 /\ PathLen <= Stride /\ PathLen \in Nat
  BY HostCopyAssumption
<1>1. PICK sum : Sums(lens, sum) /\ Ends(lens) = [q \in Reqs |-> sum[q]]
  BY EndsSums
<1>2. /\ Len(flat) = sum[Bs]
      /\ \A q \in Reqs : \A j \in 1..lens[q] : flat[sum[q - 1] + j] = <<p, q, j>>
  <2>1. lens \in Lens /\ Sums(lens, sum)
    BY <1>1
  <2>2. /\ Len(Flat(p, lens)) = sum[Bs]
        /\ \A q \in Reqs : \A j \in 1..lens[q] : Flat(p, lens)[sum[q - 1] + j] = <<p, q, j>>
    BY ONLY <2>1, FlatPaths, Zenon
  <2> QED BY <2>2
<1> DEFINE s0 == sum[r - 1] + i - 1
<1>3. \A q \in Reqs : lens[q] \in 1..PathLen /\ \A j \in 1..lens[q] : j \in 1..Stride
  BY <1>0 DEF Lens
<1>4. x \in 1..(Bs * Stride)
  <2>1. r - 1 \in Nat /\ Bs - r \in Nat /\ Bs = (r - 1) + 1 + (Bs - r)
    BY <1>0 DEF Reqs
  <2>2. ((r - 1) + 1 + (Bs - r)) * Stride = (r - 1) * Stride + Stride + (Bs - r) * Stride
    BY <1>0, <2>1
  <2>3. (r - 1) * Stride \in Nat /\ (Bs - r) * Stride \in Nat
    BY <1>0, <2>1
  <2>4. i \in 1..Stride
    BY <1>3
  <2> QED BY <1>0, <2>1, <2>2, <2>3, <2>4
<1>5. s0 \in 0..(Len(flat) - 1) /\ s0 + 1 = sum[r - 1] + i /\ sum[r - 1] \in Nat
  <2>1. r \in 0..Bs /\ r - 1 \in 0..(Bs - 1) /\ r - 1 \in 0..Bs /\ (r - 1) + 1 = r /\ Bs \in 0..Bs
    BY <1>0 DEF Reqs
  <2>2. /\ sum[r - 1] \in Nat /\ sum[r] \in Nat /\ sum[Bs] \in Nat /\ sum[r] = sum[r - 1] + lens[r]
    BY <1>1, <2>1 DEF Sums
  <2>3. sum[r] <= sum[Bs]
    BY <1>1, <2>1, SumsGrow
  <2>4. lens[r] \in Nat /\ i \in Nat /\ 1 <= i /\ i <= lens[r]
    BY <1>0, <1>3
  <2> HIDE DEF flat
  <2>5. Len(flat) = sum[Bs]
    BY <1>2
  <2> QED BY <2>2, <2>3, <2>4, <2>5
<1>6. s0 \in from
  <2>1. Destination(lens, s0) = (r - 1) * Stride + i - 1
    BY <1>1, DestinationOf
  <2>2. x - 1 = (r - 1) * Stride + i - 1
    BY <1>0 DEF Reqs
  <2> HIDE DEF s0, flat, x
  <2>3. Destination(lens, s0) = x - 1
    BY <2>1, <2>2
  <2> QED BY <1>5, <2>3
<1>7. ASSUME NEW s \in from PROVE s = s0
  <2>1. s \in 0..(sum[Bs] - 1)
    BY <1>2
  <2>2. PICK q \in Reqs : \E j \in 1..lens[q] : s = sum[q - 1] + j - 1
    BY <1>1, <2>1, Covered
  <2>3. PICK j \in 1..lens[q] : s = sum[q - 1] + j - 1
    BY <2>2
  <2>4. Destination(lens, s) = (q - 1) * Stride + j - 1
    BY <1>1, <2>3, DestinationOf
  <2>5. (q - 1) * Stride \in Int /\ (r - 1) * Stride \in Int
    BY <1>0 DEF Reqs
  <2>6. (q - 1) * Stride + j = (r - 1) * Stride + i
    BY <2>4, <2>5
  <2>7. q = r /\ j = i
    BY <1>3, <2>6, RowApart
  <2> QED BY <2>3, <2>7
<1> HIDE DEF s0, from
<1>8. (CHOOSE s \in from : TRUE) = s0 /\ from # {}
  BY <1>6, <1>7
<1>9. PackVerifiedIds(flat, lens)[x] = IF from = {} THEN <<>> ELSE flat[1 + CHOOSE s \in from : TRUE]
  BY <1>4 DEF PackVerifiedIds, from
<1>10. flat[1 + s0] = <<p, r, i>>
  <2>1. 1 + s0 = sum[r - 1] + i
    BY <1>5
  <2> QED BY <1>2, <2>1
<1> QED BY <1>4, <1>8, <1>9, <1>10

Paths(p, lens) == [r \in Reqs |-> Path(p, lens, r)]

\* What the scheduler cuts out of row r is path r.
LEMMA RowsRead ==
  ASSUME NEW p, NEW lens \in Lens
  PROVE  [r \in Reqs |-> Slice(PackVerifiedIds(Flat(p, lens), lens), (r - 1) * Stride, lens[r])]
           = Paths(p, lens)
<1> DEFINE q == PackVerifiedIds(Flat(p, lens), lens)
           n == Bs * Stride
           T == {q[x] : x \in 1..n}
<1>0. /\ Bs \in Nat /\ Stride \in Nat /\ PathLen \in Nat /\ n \in Nat
  BY HostCopyAssumption
<1>1. Len(q) = n /\ \A x \in 1..n : q[x] \in T
  <2>1. DOMAIN q = 1..n /\ q = [x \in DOMAIN q |-> q[x]]
    BY DEF PackVerifiedIds
  <2>2. \A x \in 1..n : q[x] \in T
    OBVIOUS
  <2> HIDE DEF q, T
  <2>3. q \in [1..n -> T]
    BY <2>1, <2>2
  <2> HIDE DEF n
  <2> QED BY <1>0, <2>2, <2>3, ListOf
<1>2. ASSUME NEW r \in Reqs PROVE Slice(q, (r - 1) * Stride, lens[r]) = Path(p, lens, r)
  <2> DEFINE a == (r - 1) * Stride
             l == lens[r]
  <2>1. a \in Nat /\ l \in Nat /\ l >= 1
    BY <1>0 DEF Reqs, Lens
  <2>2. \A i \in 1..l : a + i \in 1..n /\ q[a + i] = <<p, r, i>>
    BY PackedRows
  <2> HIDE DEF q, a, l, n, T
  <2>3. a + l <= n
    <3>1. l \in 1..l
      BY <2>1
    <3>2. a + l \in 1..n
      BY <2>2, <3>1
    <3> QED BY <1>0, <3>2
  <2>4. Slice(q, a, l) = SubSeq(q, a + 1, a + l)
    <3>1. (IF a + l < n THEN a + l ELSE n) = a + l
      BY <1>0, <2>1, <2>3
    <3> QED BY <1>1, <3>1 DEF Slice
  <2>5. /\ SubSeq(q, a + 1, a + l) \in Seq(T) /\ Len(SubSeq(q, a + 1, a + l)) = l
        /\ \A i \in 1..l : SubSeq(q, a + 1, a + l)[i] = q[a + i]
    <3>1. \A k \in (a + 1)..(a + l) : q[k] \in T
      <4>1. \A k \in (a + 1)..(a + l) : k \in 1..n
        BY <1>0, <2>1, <2>3
      <4> QED BY <1>1, <4>1
    <3>2. /\ a + 1 \in Int /\ a + l \in Int /\ a + 1 <= a + l /\ (a + l) - (a + 1) + 1 = l
          /\ \A i \in 1..l : (a + 1) + i - 1 = a + i
      BY <2>1
    <3>3. /\ SubSeq(q, a + 1, a + l) \in Seq(T)
          /\ Len(SubSeq(q, a + 1, a + l)) = (a + l) - (a + 1) + 1
          /\ \A i \in 1..((a + l) - (a + 1) + 1) : SubSeq(q, a + 1, a + l)[i] = q[(a + 1) + i - 1]
      BY <3>1, <3>2, SubSeqProperties
    <3> QED BY <3>2, <3>3
  <2> DEFINE u == SubSeq(q, a + 1, a + l)
  <2>6. DOMAIN u = 1..l /\ u = [i \in DOMAIN u |-> u[i]]
    <3>1. u \in Seq(T) /\ Len(u) = l
      BY <2>5
    <3> HIDE DEF u
    <3> QED BY <3>1, LenProperties
  <2>7. \A i \in 1..l : u[i] = <<p, r, i>>
    BY <2>2, <2>5
  <2>8. Path(p, lens, r) = [i \in 1..l |-> <<p, r, i>>]
    BY DEF Path, l
  <2> HIDE DEF u
  <2>9. u = Path(p, lens, r)
    BY <2>6, <2>7, <2>8
  <2> QED BY <2>4, <2>9 DEF u, a, l
<1> QED BY <1>2 DEF Paths

-----------------------------------------------------------------------------
(* The copies and their reader. *)

\* The rows of pass p.
Rows(p) == PackVerifiedIds(Flat(p, accepted[p]), accepted[p])

LensCopy == [pass |-> pass, field |-> "lens", val |-> accepted[pass]]
IdsCopy == [pass |-> pass, field |-> "ids", val |-> Rows(pass)]

LensHere(p) == host[p].lens = accepted[p]
Here(p) == LensHere(p) /\ host[p].ids = Rows(p)

Ids == {<<>>} \cup {PackVerifiedIds(Flat(p, lens), lens) : p \in Nat, lens \in Lens}
HostType == [lens : Lens \cup {Zeros}, ids : Ids]
PathsType == {Paths(p, lens) : p \in Nat, lens \in Lens}

CopyTypes ==
  /\ pc \in {"idle", "copy_lens", "read_lens", "copy_ids", "record"}
  /\ pass \in Nat /\ ran \in Nat
  /\ accepted \in Seq(Lens) /\ Len(accepted) = pass
  /\ host \in Seq(HostType) /\ Len(host) = pass
  /\ results \in Seq([pass : Nat, mark : Nat])
  /\ taken \in Seq(PathsType)

\* The copies of the newest pass run in the order in which they were queued, and those of
\* the passes before have run: a pass begins when the stream has drained.
StreamInv ==
  /\ \A p \in 1..(pass - 1) : Here(p)
  /\ pass = 0 => pc = "idle" /\ stream = <<>>
  /\ pc = "copy_lens" => stream = <<>>
  /\ pc \in {"read_lens", "copy_ids"} =>
       stream = <<LensCopy>> \/ (stream = <<>> /\ LensHere(pass))
  /\ pc \in {"record", "idle"} /\ pass # 0 =>
       \/ stream = <<LensCopy, IdsCopy>>
       \/ stream = <<IdsCopy>> /\ LensHere(pass)
       \/ stream = <<>> /\ Here(pass)

\* Results wait in the order of their passes, the newest behind what is queued.
ResultInv ==
  /\ Len(taken) + Len(results) = IF pc = "idle" THEN pass ELSE pass - 1
  /\ \A i \in 1..Len(results) :
       /\ results[i].pass = Len(taken) + i
       /\ results[i].pass = pass => results[i].mark = ran + Len(stream)
  /\ \A p \in 1..Len(taken) : taken[p] = Paths(p, accepted[p])

CopyInv == CopyTypes /\ StreamInv /\ ResultInv

LEMMA CopyInitInv == CopyInit => CopyInv
<1> SUFFICES ASSUME CopyInit PROVE CopyInv
  OBVIOUS
<1>1. Len(<<>>) = 0 /\ \A S : <<>> \in Seq(S)
  BY EmptySeq
<1>2. CopyTypes
  BY <1>1 DEF CopyInit, CopyTypes
<1>3. StreamInv
  BY DEF CopyInit, StreamInv
<1>4. ResultInv
  BY <1>1 DEF CopyInit, ResultInv
<1> QED BY <1>2, <1>3, <1>4 DEF CopyInv

\* What an action that leaves the stream's inputs and the results alone leaves true.
LEMMA SameCopies ==
  ASSUME CopyInv, UNCHANGED <<pass, accepted, host, taken>>
  PROVE  /\ \A p : (Here(p)' <=> Here(p)) /\ (LensHere(p)' <=> LensHere(p))
         /\ LensCopy' = LensCopy /\ IdsCopy' = IdsCopy
         /\ \A p \in 1..(pass - 1) : Here(p)'
         /\ \A p \in 1..Len(taken') : taken'[p] = Paths(p, accepted'[p])
<1>1. \A p : Rows(p)' = Rows(p)
  BY DEF Rows
<1>2. \A p : (LensHere(p)' <=> LensHere(p)) /\ (Here(p)' <=> Here(p))
  BY <1>1 DEF LensHere, Here
<1>3. LensCopy' = LensCopy /\ IdsCopy' = IdsCopy
  BY <1>1 DEF LensCopy, IdsCopy
<1>4. \A p \in 1..(pass - 1) : Here(p)'
  BY <1>2 DEF CopyInv, StreamInv
<1>5. \A p \in 1..Len(taken') : taken'[p] = Paths(p, accepted'[p])
  BY DEF CopyInv, ResultInv, Paths
<1> QED BY <1>2, <1>3, <1>4, <1>5

LEMMA VerifyInv ==
  ASSUME CopyInv, NEW lens \in Lens, Verify(lens)
  PROVE  CopyInv'
<1>1. /\ pc = "idle" /\ stream = <<>> /\ pass' = pass + 1 /\ accepted' = Append(accepted, lens)
      /\ host' = Append(host, IF pass = 0 THEN [lens |-> Zeros, ids |-> <<>>] ELSE host[pass])
      /\ pc' = "copy_lens" /\ UNCHANGED <<stream, ran, read, results, taken>>
  BY DEF Verify
<1>2. CopyTypes /\ StreamInv /\ ResultInv
  BY DEF CopyInv
<1>3. pass \in Nat /\ Len(accepted) = pass /\ Len(host) = pass
  BY <1>2 DEF CopyTypes
<1>4. /\ accepted' \in Seq(Lens) /\ Len(accepted') = pass + 1
      /\ \A p \in 1..pass : accepted'[p] = accepted[p]
  BY <1>1, <1>2, <1>3, AppendProperties DEF CopyTypes
<1>5. /\ host' \in Seq(HostType) /\ Len(host') = pass + 1
      /\ \A p \in 1..pass : host'[p] = host[p]
  <2> DEFINE h == IF pass = 0 THEN [lens |-> Zeros, ids |-> <<>>] ELSE host[pass]
  <2>1. h \in HostType
    <3>1. CASE pass = 0
      BY <3>1 DEF HostType, Ids
    <3>2. CASE pass # 0
      <4>1. pass \in 1..Len(host)
        BY <1>3, <3>2
      <4> QED BY <1>2, <3>2, <4>1, ElementOfSeq DEF CopyTypes
    <3> QED BY <3>1, <3>2
  <2> HIDE DEF h
  <2>2. host' = Append(host, h)
    BY <1>1 DEF h
  <2> QED BY <1>2, <1>3, <2>1, <2>2, AppendProperties DEF CopyTypes
<1>6. CopyTypes'
  BY <1>1, <1>2, <1>3, <1>4, <1>5 DEF CopyTypes
<1>7. ASSUME NEW p \in 1..pass PROVE Here(p)'
  <2>1. Here(p)
    <3>1. CASE p = pass
      BY <1>1, <1>2, <1>3, <3>1 DEF StreamInv
    <3>2. CASE p # pass
      <4>1. p \in 1..(pass - 1)
        BY <1>3, <3>2
      <4> QED BY <1>2, <4>1 DEF StreamInv
    <3> QED BY <3>1, <3>2
  <2> QED BY <1>4, <1>5, <2>1 DEF Here, LensHere, Rows
<1>8. StreamInv'
  <2>1. 1..(pass' - 1) = 1..pass /\ pass' # 0
    BY <1>1, <1>3
  <2> QED BY <1>1, <1>7, <2>1 DEF StreamInv
<1>9. ResultInv'
  <2>1. Len(taken) \in Nat /\ Len(results) \in Nat /\ Len(taken) + Len(results) = pass
    BY <1>1, <1>2, LenProperties DEF CopyTypes, ResultInv
  <2>2. \A i \in 1..Len(results) : results[i].pass = Len(taken) + i /\ results[i].pass # pass + 1
    BY <1>2, <1>3, <2>1 DEF ResultInv
  <2>3. \A p \in 1..Len(taken) : p \in 1..pass
    BY <1>3, <2>1
  <2>4. \A p \in 1..Len(taken) : taken[p] = Paths(p, accepted'[p])
    BY <1>2, <1>4, <2>3 DEF ResultInv
  <2>5. Len(taken) + Len(results) = pass' - 1
    BY <1>1, <1>3, <2>1
  <2> QED BY <1>1, <2>2, <2>4, <2>5 DEF ResultInv, Paths
<1> QED BY <1>6, <1>8, <1>9 DEF CopyInv

\* While the worker is between two copies no result is waiting for the newest pass.
LEMMA BusyResults ==
  ASSUME CopyInv, pc # "idle"
  PROVE  \A i \in 1..Len(results) : results[i].pass # pass
<1>1. Len(taken) \in Nat /\ Len(results) \in Nat /\ Len(taken) + Len(results) = pass - 1 /\ pass \in Nat
  BY LenProperties DEF CopyInv, CopyTypes, ResultInv
<1>2. \A i \in 1..Len(results) : results[i].pass = Len(taken) + i
  BY DEF CopyInv, ResultInv
<1> QED BY <1>1, <1>2

LEMMA CopyLensInv ==
  ASSUME CopyInv, SpecV2, CopyLens
  PROVE  CopyInv'
<1>1. /\ pc = "copy_lens" /\ pc' = "read_lens" /\ stream' = Append(stream, LensCopy)
      /\ UNCHANGED <<pass, accepted, ran, host, read, results, taken>>
  BY DEF CopyLens, Queue, LensCopy
<1>2. stream' = <<LensCopy>> /\ pass # 0
  BY <1>1 DEF CopyInv, StreamInv
<1>3. CopyTypes'
  BY <1>1 DEF CopyInv, CopyTypes
<1>4. StreamInv'
  BY <1>1, <1>2, SameCopies DEF StreamInv
<1>5. ResultInv'
  BY <1>1, SameCopies, BusyResults DEF CopyInv, ResultInv
<1> QED BY <1>3, <1>4, <1>5 DEF CopyInv

LEMMA ReadLensInv ==
  ASSUME CopyInv, SpecV2, ReadLens
  PROVE  CopyInv'
<1>1. /\ pc = "read_lens" /\ pc' = "copy_ids"
      /\ UNCHANGED <<pass, accepted, stream, ran, host, results, taken>>
  BY DEF ReadLens
<1>2. CopyTypes'
  BY <1>1 DEF CopyInv, CopyTypes
<1>3. StreamInv'
  BY <1>1, SameCopies DEF CopyInv, StreamInv
<1>4. ResultInv'
  BY <1>1, SameCopies, BusyResults DEF CopyInv, ResultInv
<1> QED BY <1>2, <1>3, <1>4 DEF CopyInv

LEMMA AppendTwo ==
  ASSUME NEW x, NEW y
  PROVE  Append(<<x>>, y) = <<x, y>>
<1> DEFINE S == {x, y}
           u == Append(<<x>>, y)
<1>1. <<x>> \in Seq(S) /\ Len(<<x>>) = 1 /\ <<x>>[1] = x /\ y \in S
  OBVIOUS
<1>2. <<x, y>> \in Seq(S) /\ Len(<<x, y>>) = 2 /\ <<x, y>>[1] = x /\ <<x, y>>[2] = y
  OBVIOUS
<1> HIDE DEF S
<1>3. u \in Seq(S) /\ Len(u) = 1 + 1 /\ (\A i \in 1..1 : u[i] = <<x>>[i]) /\ u[1 + 1] = y
  BY <1>1, AppendProperties
<1> DEFINE v == <<x, y>>
<1>4. Len(u) = Len(v) /\ \A i \in 1..Len(u) : u[i] = v[i]
  <2> HIDE DEF u
  <2>1. u[1] = x /\ u[2] = y /\ Len(u) = 2
    BY <1>1, <1>3
  <2> QED BY <1>2, <2>1
<1> HIDE DEF u, v
<1>5. u \in Seq(S) /\ v \in Seq(S)
  BY <1>2, <1>3 DEF v
<1>6. u = v
  BY <1>4, <1>5, SeqEqual
<1> QED BY <1>6 DEF u, v

LEMMA CopyIdsInv ==
  ASSUME CopyInv, SpecV2, CopyIds
  PROVE  CopyInv'
<1>1. /\ pc = "copy_ids" /\ pc' = "record" /\ stream' = Append(stream, IdsCopy)
      /\ UNCHANGED <<pass, accepted, ran, host, read, results, taken>>
  BY DEF CopyIds, Queue, IdsCopy, Rows
<1>2. pass # 0
  BY <1>1 DEF CopyInv, StreamInv
<1>3. stream' = <<LensCopy, IdsCopy>> \/ (stream' = <<IdsCopy>> /\ LensHere(pass))
  <2>1. stream = <<LensCopy>> \/ (stream = <<>> /\ LensHere(pass))
    BY <1>1 DEF CopyInv, StreamInv
  <2>2. CASE stream = <<LensCopy>>
    BY <1>1, <2>2, AppendTwo
  <2>3. CASE stream = <<>> /\ LensHere(pass)
    <3>1. \A y : Append(<<>>, y) = <<y>>
      OBVIOUS
    <3> QED BY <1>1, <2>3, <3>1
  <2> QED BY <2>1, <2>2, <2>3
<1>4. CopyTypes'
  BY <1>1 DEF CopyInv, CopyTypes
<1>5. StreamInv'
  BY <1>1, <1>2, <1>3, SameCopies DEF StreamInv
<1>6. ResultInv'
  BY <1>1, SameCopies, BusyResults DEF CopyInv, ResultInv
<1> QED BY <1>4, <1>5, <1>6 DEF CopyInv

LEMMA RecordInv ==
  ASSUME CopyInv, Record
  PROVE  CopyInv'
<1> DEFINE e == [pass |-> pass, mark |-> ran + Len(stream)]
<1>1. /\ pc = "record" /\ pc' = "idle" /\ results' = Append(results, e)
      /\ UNCHANGED <<pass, accepted, stream, ran, host, read, taken>>
  BY DEF Record
<1>2. CopyTypes /\ StreamInv /\ ResultInv
  BY DEF CopyInv
<1>3. Len(stream) \in Nat
  <2>1. \A x, y : Len(<<x, y>>) = 2 /\ Len(<<x>>) = 1 /\ Len(<<>>) = 0
    OBVIOUS
  <2>2. \/ stream = <<LensCopy, IdsCopy>> \/ stream = <<IdsCopy>> \/ stream = <<>>
    BY <1>1, <1>2 DEF StreamInv
  <2> QED BY <2>1, <2>2
<1>4. e \in [pass : Nat, mark : Nat] /\ e.pass = pass /\ e.mark = ran + Len(stream)
  BY <1>2, <1>3 DEF CopyTypes
<1> HIDE DEF e
<1>5. /\ results' \in Seq([pass : Nat, mark : Nat]) /\ Len(results') = Len(results) + 1
      /\ (\A i \in 1..Len(results) : results'[i] = results[i])
      /\ results'[Len(results) + 1] = e
  BY <1>1, <1>2, <1>4, AppendProperties DEF CopyTypes
<1>6. CopyTypes'
  BY <1>1, <1>2, <1>5 DEF CopyTypes
<1>7. StreamInv'
  BY <1>1, <1>2, SameCopies DEF StreamInv
<1>8. ResultInv'
  <2>1. Len(taken) \in Nat /\ Len(results) \in Nat /\ Len(taken) + Len(results) = pass - 1 /\ pass \in Nat
    BY <1>1, <1>2, LenProperties DEF CopyTypes, ResultInv
  <2>2. Len(taken') + Len(results') = pass'
    BY <1>1, <1>5, <2>1
  <2>3. ASSUME NEW i \in 1..Len(results')
        PROVE  /\ results'[i].pass = Len(taken) + i
               /\ results'[i].pass = pass => results'[i].mark = ran + Len(stream)
    <3>1. CASE i = Len(results) + 1
      BY <1>4, <1>5, <2>1, <3>1
    <3>2. CASE i # Len(results) + 1
      <4>1. i \in 1..Len(results)
        BY <1>5, <2>1, <3>2
      <4> QED BY <1>2, <1>5, <4>1 DEF ResultInv
    <3> QED BY <3>1, <3>2
  <2> QED BY <1>1, <2>2, <2>3, SameCopies DEF ResultInv
<1> QED BY <1>6, <1>7, <1>8 DEF CopyInv

\* The scheduler reads a pass of which all copies have run.
LEMMA ProcessInv ==
  ASSUME CopyInv, Process
  PROVE  CopyInv'
<1> DEFINE p == Head(results).pass
           new == [r \in Reqs |-> Slice(host[p].ids, (r - 1) * Stride, host[p].lens[r])]
<1>1. /\ pc = "idle" /\ results # <<>> /\ ran >= Head(results).mark
      /\ taken' = Append(taken, new) /\ results' = Tail(results)
      /\ UNCHANGED <<pc, pass, accepted, stream, ran, host, read>>
  BY DEF Process, CopyDone
<1>2. CopyTypes /\ StreamInv /\ ResultInv
  BY DEF CopyInv
<1>3. /\ Len(results) \in Nat \ {0} /\ Head(results) = results[1] /\ Len(taken) \in Nat
      /\ pass \in Nat /\ ran \in Nat /\ Len(accepted) = pass
  BY <1>1, <1>2, EmptySeq, LenProperties DEF CopyTypes
<1>4. /\ results' \in Seq([pass : Nat, mark : Nat]) /\ Len(results') = Len(results) - 1
      /\ \A i \in 1..(Len(results) - 1) : results'[i] = results[i + 1]
  BY <1>1, <1>2, HeadTailProperties DEF CopyTypes
<1>5. p = Len(taken) + 1 /\ Len(taken) + Len(results) = pass
  BY <1>1, <1>2, <1>3 DEF ResultInv
<1>6. p \in 1..pass
  BY <1>3, <1>5
<1>7. Here(p)
  <2>1. CASE p = pass
    <3>1. ran >= ran + Len(stream)
      BY <1>1, <1>2, <1>3, <2>1 DEF ResultInv
    <3>2. \A x, y : Len(<<x, y>>) = 2 /\ Len(<<x>>) = 1
      OBVIOUS
    <3>3. stream # <<LensCopy, IdsCopy>> /\ stream # <<IdsCopy>>
      <4>1. Len(<<LensCopy, IdsCopy>>) = 2 /\ Len(<<IdsCopy>>) = 1
        BY <3>2
      <4>2. Len(stream) # 2 /\ Len(stream) # 1
        BY <1>3, <3>1
      <4> QED BY <4>1, <4>2, Zenon
    <3>4. pass # 0
      BY <1>3, <1>6
    <3> QED BY <1>1, <1>2, <2>1, <3>3, <3>4 DEF StreamInv
  <2>2. CASE p # pass
    <3>1. p \in 1..(pass - 1)
      BY <1>3, <1>6, <2>2
    <3> QED BY <1>2, <3>1 DEF StreamInv
  <2> QED BY <2>1, <2>2
<1>8. accepted[p] \in Lens
  BY <1>2, <1>3, <1>6, ElementOfSeq DEF CopyTypes
<1>9. new = Paths(p, accepted[p])
  <2>1. host[p].lens = accepted[p] /\ host[p].ids = PackVerifiedIds(Flat(p, accepted[p]), accepted[p])
    BY <1>7 DEF Here, LensHere, Rows
  <2>2. new = [r \in Reqs |-> Slice(PackVerifiedIds(Flat(p, accepted[p]), accepted[p]),
                                    (r - 1) * Stride, accepted[p][r])]
    BY <2>1
  <2> HIDE DEF p
  <2> QED BY <1>8, <2>2, RowsRead
<1> HIDE DEF p, new
<1>10. /\ taken' \in Seq(PathsType) /\ Len(taken') = Len(taken) + 1
       /\ (\A i \in 1..Len(taken) : taken'[i] = taken[i]) /\ taken'[Len(taken) + 1] = new
  <2>1. new \in PathsType
    <3>1. p \in Nat
      BY <1>3, <1>6
    <3> QED BY <1>8, <1>9, <3>1 DEF PathsType
  <2> QED BY <1>1, <1>2, <2>1, AppendProperties DEF CopyTypes
<1>11. CopyTypes'
  BY <1>1, <1>2, <1>4, <1>10 DEF CopyTypes
<1>12. StreamInv'
  BY <1>1, <1>2 DEF StreamInv, Here, LensHere, Rows, LensCopy, IdsCopy
<1>13. ResultInv'
  <2>1. Len(taken') + Len(results') = pass'
    <3>1. Len(taken') = Len(taken) + 1 /\ Len(results') = Len(results) - 1 /\ pass' = pass
      BY <1>1, <1>4, <1>10
    <3> QED BY <1>3, <1>5, <3>1
  <2>2. ASSUME NEW i \in 1..Len(results')
        PROVE  /\ results'[i].pass = Len(taken') + i
               /\ results'[i].pass = pass => results'[i].mark = ran + Len(stream)
    <3>1. i + 1 \in 1..Len(results) /\ i \in 1..(Len(results) - 1) /\ Len(taken) + (i + 1) = Len(taken') + i
      BY <1>3, <1>4, <1>10
    <3>2. results'[i] = results[i + 1]
      BY <1>4, <3>1
    <3> QED BY <1>2, <3>1, <3>2 DEF ResultInv
  <2>3. ASSUME NEW k \in 1..Len(taken') PROVE taken'[k] = Paths(k, accepted[k])
    <3>1. CASE k = p
      BY <1>5, <1>9, <1>10, <3>1
    <3>2. CASE k # p
      <4>1. k \in 1..Len(taken)
        BY <1>3, <1>5, <1>10, <3>2
      <4> QED BY <1>2, <1>10, <4>1 DEF ResultInv
    <3> QED BY <3>1, <3>2
  <2> QED BY <1>1, <2>1, <2>2, <2>3 DEF ResultInv, Paths
<1> QED BY <1>11, <1>12, <1>13 DEF CopyInv

\* A copy writes one field of the newest pass.
LEMMA Written ==
  ASSUME CopyTypes, pass # 0, NEW h \in HostType, host' = [host EXCEPT ![pass] = h]
  PROVE  /\ host' \in Seq(HostType) /\ Len(host') = pass /\ host'[pass] = h
         /\ \A p \in 1..(pass - 1) : host'[p] = host[p]
<1>1. host \in [1..pass -> HostType] /\ pass \in 1..pass /\ pass \in Nat
  BY LenProperties DEF CopyTypes
<1>2. host' \in [1..pass -> HostType] /\ host'[pass] = h
  BY <1>1
<1>3. \A p \in 1..(pass - 1) : p \in 1..pass /\ p # pass
  BY <1>1
<1>4. \A p \in 1..(pass - 1) : host'[p] = host[p]
  BY <1>1, <1>3
<1> QED BY <1>1, <1>2, <1>4, ListOf

LEMMA DeviceInv ==
  ASSUME CopyInv, Device
  PROVE  CopyInv'
<1> DEFINE c == Head(stream)
<1>1. /\ stream # <<>> /\ host' = [host EXCEPT ![c.pass][c.field] = c.val]
      /\ stream' = Tail(stream) /\ ran' = ran + 1
      /\ UNCHANGED <<pc, pass, accepted, read, results, taken>>
  BY DEF Device
<1>2. CopyTypes /\ StreamInv /\ ResultInv
  BY DEF CopyInv
<1>3. pass # 0 /\ pass \in Nat /\ pc \in {"read_lens", "copy_ids", "record", "idle"}
  BY <1>1, <1>2 DEF CopyTypes, StreamInv
<1>4. pass \in 1..Len(host) /\ pass \in 1..Len(accepted)
  BY <1>2, <1>3 DEF CopyTypes
<1>5. host[pass] \in HostType /\ accepted[pass] \in Lens
  BY <1>2, <1>4, ElementOfSeq DEF CopyTypes
<1>6. Rows(pass) \in Ids
  BY <1>3, <1>5 DEF Rows, Ids
<1>7. \A x, y : /\ Head(<<x, y>>) = x /\ Tail(<<x, y>>) = <<y>> /\ Len(<<x, y>>) = 2
                /\ Head(<<x>>) = x /\ Tail(<<x>>) = <<>> /\ Len(<<x>>) = 1 /\ Len(<<>>) = 0
  OBVIOUS
<1>8. \A p : Rows(p)' = Rows(p)
  BY <1>1 DEF Rows
<1>9. LensCopy' = LensCopy /\ IdsCopy' = IdsCopy
  BY <1>1, <1>8 DEF LensCopy, IdsCopy
<1>10. ASSUME c = LensCopy
       PROVE  /\ host' \in Seq(HostType) /\ Len(host') = pass /\ LensHere(pass)'
              /\ \A p \in 1..(pass - 1) : host'[p] = host[p]
  <2> DEFINE h == [host[pass] EXCEPT !.lens = accepted[pass]]
  <2>1. c.pass = pass /\ c.field = "lens" /\ c.val = accepted[pass]
    BY <1>10 DEF LensCopy
  <2>2. host' = [host EXCEPT ![pass] = h]
    BY <1>1, <2>1
  <2>3. h \in HostType /\ h.lens = accepted[pass]
    BY <1>5 DEF HostType
  <2> HIDE DEF h
  <2>4. /\ host' \in Seq(HostType) /\ Len(host') = pass /\ host'[pass] = h
        /\ \A p \in 1..(pass - 1) : host'[p] = host[p]
    BY <1>2, <1>3, <2>2, <2>3, Written
  <2> QED BY <1>1, <2>3, <2>4 DEF LensHere
<1>11. ASSUME c = IdsCopy, LensHere(pass)
       PROVE  /\ host' \in Seq(HostType) /\ Len(host') = pass /\ Here(pass)'
              /\ \A p \in 1..(pass - 1) : host'[p] = host[p]
  <2> DEFINE h == [host[pass] EXCEPT !.ids = Rows(pass)]
  <2>1. c.pass = pass /\ c.field = "ids" /\ c.val = Rows(pass)
    BY <1>11 DEF IdsCopy
  <2>2. host' = [host EXCEPT ![pass] = h]
    BY <1>1, <2>1
  <2>3. h \in HostType /\ h.ids = Rows(pass) /\ h.lens = accepted[pass]
    BY <1>5, <1>6, <1>11 DEF HostType, LensHere
  <2> HIDE DEF h
  <2>4. /\ host' \in Seq(HostType) /\ Len(host') = pass /\ host'[pass] = h
        /\ \A p \in 1..(pass - 1) : host'[p] = host[p]
    BY <1>2, <1>3, <2>2, <2>3, Written
  <2> QED BY <1>1, <1>8, <2>3, <2>4 DEF LensHere, Here
<1>12. \/ /\ stream = <<LensCopy>> /\ pc \in {"read_lens", "copy_ids"}
          /\ c = LensCopy /\ stream' = <<>> /\ Len(stream) = 1
       \/ /\ stream = <<LensCopy, IdsCopy>> /\ pc \in {"record", "idle"}
          /\ c = LensCopy /\ stream' = <<IdsCopy>> /\ Len(stream) = 2
       \/ /\ stream = <<IdsCopy>> /\ pc \in {"record", "idle"} /\ LensHere(pass)
          /\ c = IdsCopy /\ stream' = <<>> /\ Len(stream) = 1
  <2>1. \/ stream = <<LensCopy>> /\ pc \in {"read_lens", "copy_ids"}
        \/ stream = <<LensCopy, IdsCopy>> /\ pc \in {"record", "idle"}
        \/ stream = <<IdsCopy>> /\ pc \in {"record", "idle"} /\ LensHere(pass)
    BY <1>1, <1>2, <1>3 DEF StreamInv
  <2> QED BY <1>1, <1>7, <2>1, Zenon
<1> HIDE DEF c
<1>13. /\ host' \in Seq(HostType) /\ Len(host') = pass
       /\ \A p \in 1..(pass - 1) : host'[p] = host[p]
  BY <1>10, <1>11, <1>12
<1>14. CopyTypes'
  BY <1>1, <1>2, <1>13 DEF CopyTypes
<1>15. StreamInv'
  <2>1. \A p \in 1..(pass - 1) : Here(p)'
    BY <1>1, <1>2, <1>8, <1>13 DEF StreamInv, Here, LensHere
  <2>2. CASE stream' = <<>> /\ pc \in {"read_lens", "copy_ids"} /\ LensHere(pass)'
    BY <1>1, <1>3, <2>1, <2>2 DEF StreamInv
  <2>3. CASE stream' = <<IdsCopy>> /\ pc \in {"record", "idle"} /\ LensHere(pass)'
    BY <1>1, <1>3, <1>9, <2>1, <2>3 DEF StreamInv
  <2>4. CASE stream' = <<>> /\ pc \in {"record", "idle"} /\ Here(pass)'
    BY <1>1, <1>3, <2>1, <2>4 DEF StreamInv
  <2> QED BY <1>10, <1>11, <1>12, <2>2, <2>3, <2>4
<1>16. ResultInv'
  <2>1. ran' + Len(stream') = ran + Len(stream)
    <3>1. ran \in Nat
      BY <1>2 DEF CopyTypes
    <3>2. \/ Len(stream) = 1 /\ Len(stream') = 0
          \/ Len(stream) = 2 /\ Len(stream') = 1
      BY <1>7, <1>12, Zenon
    <3> QED BY <1>1, <3>1, <3>2
  <2> QED BY <1>1, <1>2, <2>1 DEF ResultInv, Paths
<1> QED BY <1>14, <1>15, <1>16 DEF CopyInv

\* In the overlap loop, the copies of a pass are complete when the scheduler reads them.
LEMMA CopyStepInv == SpecV2 /\ CopyInv /\ [NextOverlap]_copyVars => CopyInv'
<1> SUFFICES ASSUME SpecV2, CopyInv, [NextOverlap]_copyVars PROVE CopyInv'
  OBVIOUS
<1>1. ASSUME NEW lens \in [Reqs -> 1..PathLen], Verify(lens) PROVE CopyInv'
  BY <1>1, VerifyInv DEF Lens
<1>2. CASE CopyLens \/ CopyIds \/ ReadLens
  BY <1>2, CopyLensInv, CopyIdsInv, ReadLensInv
<1>3. CASE Record \/ Process \/ Device
  BY <1>3, RecordInv, ProcessInv, DeviceInv
<1>4. CASE UNCHANGED copyVars
  <2>1. UNCHANGED <<pc, pass, accepted, stream, ran, host, results, taken>>
    BY <1>4 DEF copyVars
  <2>2. CopyTypes'
    BY <2>1 DEF CopyInv, CopyTypes
  <2>3. StreamInv' /\ ResultInv'
    BY <2>1, SameCopies DEF CopyInv, StreamInv, ResultInv
  <2> QED BY <2>2, <2>3 DEF CopyInv
<1> QED BY <1>1, <1>2, <1>3, <1>4 DEF NextOverlap, Launch

\* With the overlap worker every request is given exactly the path the target accepted
\* for it, for every batch, path length and stride, however late the copies run: the
\* packing loses and moves no id, and copy_done covers both copies.
THEOREM PathsAreTaken ==
  ASSUME SpecV2
  PROVE  SpecOverlap => []PathsTaken
<1>1. CopyInv => PathsTaken
  <2> SUFFICES ASSUME CopyInv, NEW p \in DOMAIN taken, NEW r \in Reqs
               PROVE  taken[p][r] = Path(p, accepted[p], r)
    BY DEF PathsTaken
  <2>1. p \in 1..Len(taken)
    BY LenProperties DEF CopyInv, CopyTypes
  <2>2. taken[p] = Paths(p, accepted[p])
    BY <2>1 DEF CopyInv, ResultInv
  <2> QED BY <2>2 DEF Paths
<1>2. CopyInv /\ [NextOverlap]_copyVars => CopyInv'
  BY CopyStepInv
<1> QED BY <1>1, <1>2, CopyInitInv, PTL DEF SpecOverlap
=============================================================================
