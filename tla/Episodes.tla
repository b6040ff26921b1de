------------------------------ MODULE Episodes ------------------------------
(***************************************************************************)
(* One batch of the distillation recipe (recipes/distillation: episodes.py,*)
(* teacher.py and the body of runner._train): episodes are played in       *)
(* lockstep by the student, judged, scored by the teacher in its own chat  *)
(* format, and turned into training rows.  An agent's token is <<e, n>>,   *)
(* the n-th that episode e wrote; every other token is Other.  The         *)
(* log-probability of a token is told by the token itself.                 *)
(***************************************************************************)
EXTENDS Integers, Sequences, FiniteSets, SequencesExt

CONSTANTS Problems,   \* number of problems
          Repeats,    \* episodes of each (group_size)
          First,      \* First[k][p], tokens of problem p's first prompt in format k
          Header,     \* Header[k], tokens that format k puts around a tool's result
          TurnMax,    \* turn_max_tokens
          MaxTurns, MaxSeq,
          PerRequest  \* max_prompts_per_request

EpisodesAssumption ==
    /\ {Problems, Repeats, TurnMax, MaxTurns, MaxSeq, PerRequest} \subseteq Nat \ {0}
    /\ \A k \in 1..2 : Header[k] \in Nat /\ \A p \in 1..Problems : First[k][p] \in Nat \ {0}

Count == Problems * Repeats
Agent == 1
Teacher == 2
Other == <<0, 0>>
Unscored == <<0, 0>>

VARIABLES episode,   \* [1..Count -> Episode]
          turn,
          at,        \* where _train is
          requests,  \* the generate requests under way, each the episodes it is for
          answers,   \* what each of them was answered, or <<>>
          results,   \* what generate_results has collected
          kept,      \* the episodes to train on
          rows       \* the training rows

vars == <<episode, turn, at, requests, answers, results, kept, rows>>

ProblemOf(e) == ((e - 1) \div Repeats) + 1
Others(n) == [i \in 1..n |-> Other]

Episode(e) == [ids |-> [k \in 1..2 |-> Others(First[k][ProblemOf(e)])],
               spans |-> [k \in 1..2 |-> <<>>], logprobs |-> <<>>,
               final |-> "none", end |-> "none", reward |-> 0]

Init ==
    /\ episode = [e \in 1..Count |-> Episode(e)]
    /\ turn = 1 /\ at = "round"
    /\ requests = <<>> /\ answers = <<>> /\ results = <<>> /\ kept = <<>> /\ rows = <<>>

Biggest(S) == CHOOSE n \in S : \A m \in S : m <= n
Least(a, b) == IF a < b THEN a ELSE b
Indexes(P(_)) == SelectSeq([i \in 1..Count |-> i], P)

(* Mutant: the headers of the tool turns are forgotten. *)

(* teacher_overhead, and the smallest window that _train accepts for it.   *)
Overhead ==
    Biggest({0} \cup {First[Teacher][p] - First[Agent][p] : p \in 1..Problems})
    + Biggest({0, Header[Teacher] - Header[Agent]}) * (MaxTurns - 1)
Window == MaxSeq + Overhead + 1

(* generate_results: every chunk is submitted before any is polled.        *)
Chunks(list) ==
    [i \in 1..((Len(list) + PerRequest - 1) \div PerRequest) |->
        SubSeq(list, (i - 1) * PerRequest + 1, Least(i * PerRequest, Len(list)))]
Ask(list) ==
    /\ requests' = Chunks(list)
    /\ answers' = [i \in 1..Len(Chunks(list)) |-> <<>>]
    /\ results' = <<>>

(* What the agent may write in a turn: nothing, tokens cut at TurnMax, a   *)
(* call of a tool, or its last words, right or wrong or none.              *)
Turns ==
    {[n |-> 0, how |-> "empty"], [n |-> TurnMax, how |-> "length"]}
    \cup [n : 1..TurnMax, how : {"calls", "silent", "right", "wrong"}]

TeacherEnd(e) == LET last == episode[e].spans[Teacher][Len(episode[e].spans[Teacher])]
                 IN last[1] + last[2]
TeacherStart(e) == episode[e].spans[Teacher][1][1]

(* teacher_scoring_inputs and teacher_completion_logprobs: the teacher is  *)
(* sent its conversation through the last agent turn, and its scores of    *)
(* everything after the first prompt are used.                             *)
TeacherScores(e) == SubSeq(episode[e].ids[Teacher], TeacherStart(e) + 1, TeacherEnd(e))

(* The answers to a request for the episodes of list. *)
Answers(list) ==
    CASE at = "rollout" -> [1..Len(list) -> Turns]
      [] at = "judge" -> {[i \in 1..Len(list) |-> episode[list[i]].final = "right"]}
      [] at = "score" -> {[i \in 1..Len(list) |-> TeacherScores(list[i])]}
      [] OTHER -> {}

(* The service answers a request at any time, perhaps not all of it. *)
Answer(i) ==
    /\ i \in 1..Len(requests) /\ answers[i] = <<>>
    /\ \E a \in Answers(requests[i]) : \E n \in {Len(a) - 1, Len(a)} :
          answers' = [answers EXCEPT ![i] = [whole |-> n = Len(a), list |-> SubSeq(a, 1, n)]]
    /\ UNCHANGED <<episode, turn, at, requests, results, kept, rows>>

(* poll_request of the first request that is left; an answer that is not   *)
(* whole raises.                                                           *)
Poll ==
    /\ requests # <<>> /\ Head(answers) # <<>>
    /\ requests' = Tail(requests) /\ answers' = Tail(answers)
    /\ results' = results \o Head(answers).list
    /\ at' = IF Head(answers).whole THEN at ELSE "raised"
    /\ UNCHANGED <<episode, turn, kept, rows>>

(* run_episodes, at the head of a round: an episode whose next turn might  *)
(* not fit has ended.                                                      *)
Full(e) == episode[e].end = "none" /\ Len(episode[e].ids[Agent]) + TurnMax > MaxSeq
Active == Indexes(LAMBDA e : episode[e].end = "none")
Rounds ==
    /\ at = "round" /\ turn <= MaxTurns
    /\ LET still == Indexes(LAMBDA e : episode[e].end = "none" /\ ~Full(e)) IN
       /\ episode' = [e \in 1..Count |-> IF Full(e) THEN [episode[e] EXCEPT !.end = "context"] ELSE episode[e]]
       /\ IF still = <<>> THEN at' = "ended" /\ UNCHANGED <<requests, answers, results>>
          ELSE at' = "rollout" /\ Ask(still)
    /\ UNCHANGED <<turn, kept, rows>>

(* An episode after its turn r: the agent's tokens in both formats, then   *)
(* its end or the tool's result, which is one token and the header.        *)
Written(e) == FoldLeft(LAMBDA n, span : n + span[2], 0, episode[e].spans[Agent])
Wrote(e, r) == [j \in 1..r.n |-> <<e, Written(e) + j>>]
Ends(r) == CASE r.how = "empty" -> "empty" [] r.how = "length" -> "length"
             [] r.how = "calls" -> (IF turn = MaxTurns THEN "max_turns" ELSE "none")
             [] OTHER -> "answer"
Turned(e, r) ==
    LET tool(k) == IF Ends(r) = "none" THEN Others(1 + Header[k]) ELSE <<>> IN
    IF r.n = 0 THEN [episode[e] EXCEPT !.end = "empty"]
    ELSE [episode[e] EXCEPT
            !.ids = [k \in 1..2 |-> @[k] \o Wrote(e, r) \o tool(k)],
            !.spans = [k \in 1..2 |-> Append(@[k], <<Len(episode[e].ids[k]), r.n>>)],
            !.logprobs = @ \o Wrote(e, r),
            !.end = Ends(r),
            !.final = IF Ends(r) = "answer" THEN r.how ELSE @]
Play ==
    /\ at = "rollout" /\ requests = <<>>
    /\ episode' = [e \in 1..Count |->
           IF Contains(Active, e)
           THEN Turned(e, results[CHOOSE i \in 1..Len(Active) : Active[i] = e]) ELSE episode[e]]
    /\ turn' = turn + 1
    /\ at' = IF turn = MaxTurns THEN "ended" ELSE "round"
    /\ UNCHANGED <<requests, answers, results, kept, rows>>

(* judge: every episode that ended with a final answer is graded. *)
Answered == Indexes(LAMBDA e : episode[e].end = "answer" /\ episode[e].final # "silent")
Judge ==
    /\ at = "ended"
    /\ episode' = [e \in 1..Count |->
           [episode[e] EXCEPT !.end = IF @ = "none" THEN "max_turns" ELSE @, !.reward = 0]]
    /\ IF Answered = <<>> THEN at' = "judged" /\ UNCHANGED <<requests, answers, results>>
       ELSE at' = "judge" /\ Ask(Answered)
    /\ UNCHANGED <<turn, kept, rows>>

Grade ==
    /\ at = "judge" /\ requests = <<>>
    /\ episode' = [e \in 1..Count |->
           IF Contains(Answered, e)
           THEN [episode[e] EXCEPT
                   !.reward = IF results[CHOOSE i \in 1..Len(Answered) : Answered[i] = e] THEN 1 ELSE 0]
           ELSE episode[e]]
    /\ at' = "judged"
    /\ UNCHANGED <<turn, requests, answers, results, kept, rows>>

(* _train: an episode without a token of its own is left out; the teacher  *)
(* scores the others, if their conversations fit its window.               *)
Keep ==
    /\ at = "judged"
    /\ LET some == Indexes(LAMBDA e : episode[e].spans[Agent] # <<>>) IN
       /\ kept' = some
       /\ IF some = <<>> THEN at' = "skipped" /\ UNCHANGED <<requests, answers, results>>
          ELSE IF \E i \in 1..Len(some) : TeacherEnd(some[i]) >= Window
               THEN at' = "too long" /\ UNCHANGED <<requests, answers, results>>
               ELSE at' = "score" /\ Ask(some)
    /\ UNCHANGED <<episode, turn, rows>>

(* Mutant: the agent's tokens are taken to follow one another. *)

(* agent_teacher_logprobs: of the scores, those of the agent's tokens. *)
TeacherLogprobs(e, scores) ==
    FlattenSeq([i \in 1..Len(episode[e].spans[Teacher]) |->
        LET from == episode[e].spans[Teacher][i][1] - TeacherStart(e)
        IN  SubSeq(scores, from + 1, from + episode[e].spans[Teacher][i][2])])

(* train_sequences: position q predicts token q + 1, and carries its score.*)
Before(e, i) == FoldLeft(LAMBDA n, span : n + span[2], 0, SubSeq(episode[e].spans[Agent], 1, i - 1))
SpanOf(e, q) ==
    {i \in 1..Len(episode[e].spans[Agent]) :
        LET span == episode[e].spans[Agent][i] IN q \in span[1]..(span[1] + span[2] - 1)}
Row(e, scores) ==
    LET spans == episode[e].spans[Agent]
        last == spans[Len(spans)]
        places == 1..(last[1] + last[2])
        lps == TeacherLogprobs(e, scores)
        group == {g \in 1..Count : ProblemOf(g) = ProblemOf(e)}
    IN  [of |-> e,
         ids |-> SubSeq(episode[e].ids[Agent], 1, last[1] + last[2]),
         mask |-> [q \in places |-> SpanOf(e, q) # {}],
         score |-> [q \in places |->
            IF SpanOf(e, q) = {} THEN Unscored
            ELSE LET i == CHOOSE i \in SpanOf(e, q) : TRUE
                 IN  lps[Before(e, i) + (q - spans[i][1]) + 1]],
         advantage |-> Repeats * episode[e].reward - Cardinality({g \in group : episode[g].reward = 1})]
Train ==
    /\ at = "score" /\ requests = <<>>
    /\ rows' = [i \in 1..Len(kept) |-> Row(kept[i], results[i])]
    /\ at' = "trained"
    /\ UNCHANGED <<episode, turn, requests, answers, results, kept>>

Next ==
    \/ \E i \in 1..Len(requests) : Answer(i)
    \/ Poll \/ Rounds \/ Play \/ Judge \/ Grade \/ Keep \/ Train
Spec == Init /\ [][Next]_vars

(* However turns, headers and prompts differ between the two formats and   *)
(* in whatever order requests are answered, each place of a training row   *)
(* that predicts one of its episode's own tokens, and no other, is in the  *)
(* loss, with the teacher's score of that very token.                      *)
RowsAlign ==
    at = "trained" => \A i \in 1..Len(rows) :
        LET r == rows[i]
            own(q) == q < Len(r.ids) /\ r.ids[q + 1][1] = r.of
        IN  /\ \A q \in 1..Len(r.ids) :
                  r.mask[q] = own(q) /\ r.score[q] = IF own(q) THEN r.ids[q + 1] ELSE Unscored
            /\ SelectSeq(r.ids, LAMBDA t : t # Other) = episode[r.of].logprobs
            /\ Len(episode[r.of].logprobs) = Written(r.of)

(* A row's advantage is its own episode's verdict against its own group's. *)
RewardsAreOwn ==
    at = "trained" => \A i \in 1..Len(rows) :
        LET right(e) == episode[e].end = "answer" /\ episode[e].final = "right"
            group == {e \in 1..Count : ProblemOf(e) = ProblemOf(rows[i].of)}
        IN  rows[i].advantage = (IF right(rows[i].of) THEN Repeats ELSE 0)
                                - Cardinality({e \in group : right(e)})

(* A run whose windows were accepted at its start never stops for their    *)
(* sake: no conversation outgrows the teacher's window, no row the         *)
(* student's.                                                              *)
WindowsSuffice ==
    /\ at # "too long"
    /\ \A i \in 1..Len(rows) : Len(rows[i].ids) <= MaxSeq
=============================================================================
