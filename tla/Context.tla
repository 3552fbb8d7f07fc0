------------------------------- MODULE Context -------------------------------
(***************************************************************************)
(* What a model is told of the conversation so far (context.py): all of    *)
(* it when it fits the budget, and otherwise a summary or an outline of    *)
(* the older turns, the recent ones as far as their share goes, and the    *)
(* best pieces of what was not shown.  Summaries are written by threads    *)
(* in the background, each from the longest earlier one, and the oldest    *)
(* are dropped.                                                            *)
(*                                                                         *)
(* A turn is the sizes of its pieces, in units of a hundred characters,    *)
(* beside which labels and line ends do not count; a summary is the turns  *)
(* it was made from.  build_context holds the lock three times, but the    *)
(* transcript does not change under it, so it is one step.                 *)
(***************************************************************************)
EXTENDS Naturals, Sequences, FiniteSets, SequencesExt, FiniteSetsExt

CONSTANTS
  Conversations,
  Shapes,        \* what a turn may be: who speaks, and the sizes of its pieces
  Budgets,       \* what a consumer has room for
  RecentTurns,   \* turns quoted
  SummarySize,   \* summaries kept
  MemoSize,      \* contexts kept
  HeaderSize, NoteSize, OmissionSize, LeastShown, LeastLeft,
  MaxTurns       \* bound: turns of a conversation

ASSUME ContextAssumption ==
  /\ \A s \in Shapes : s.role \in {"user", "assistant"} /\ s.pieces \in Seq(Nat \ {0})
  /\ {RecentTurns, SummarySize, MemoSize} \subseteq Nat \ {0}
  /\ {HeaderSize, NoteSize, OmissionSize, LeastShown, LeastLeft, MaxTurns} \subseteq Nat /\ Budgets \subseteq Nat

VARIABLES
  said,       \* per conversation, its turns
  summaries,  \* _SUMMARIES, the oldest first: <<conversation, turns, what it was made from>>
  writing,    \* the threads of _IN_FLIGHT: of what, from what, and how far
  memo,       \* _MEMO, the oldest first
  handed      \* the context handed out last

contextvars == <<said, summaries, writing, memo, handed>>

Parts == Conversations \X (1..MaxTurns)
TurnSeqs == UNION {[1..n -> 1..MaxTurns] : n \in 0..MaxTurns}
NoContext == [of |-> <<>>, older |-> <<>>, outline |-> {}, whole |-> {}, part |-> {}, found |-> {}]

ContextTypeOK ==
  /\ \A c \in Conversations : said[c] \in Seq(Shapes)
  /\ \A i \in 1..Len(summaries) : summaries[i].of \in Parts /\ summaries[i].made \in TurnSeqs
  /\ \A w \in writing : w.of \in Parts /\ w.step \in {"begun", "asking"} /\ w.from \in TurnSeqs
  /\ Len(summaries) <= SummarySize /\ Len(memo) <= MemoSize

ContextInit ==
  /\ said = [c \in Conversations |-> <<>>] /\ summaries = <<>> /\ writing = {} /\ memo = <<>>
  /\ handed = NoContext
-----------------------------------------------------------------------------
\* The page sends the transcript with every message: it grows by a turn.
SayMore(c) ==
  /\ Len(said[c]) < MaxTurns
  /\ \E turn \in Shapes : said' = [said EXCEPT ![c] = Append(@, turn)]
  /\ UNCHANGED <<summaries, writing, memo, handed>>

\* The sum of the first n sizes.
Total(sizes, n) == LET upTo[k \in 0..n] == IF k = 0 THEN 0 ELSE upTo[k - 1] + sizes[k] IN upTo[n]
Size(turn) == Total(turn.pieces, Len(turn.pieces))

\* The last n of a sequence: what popitem(last=False) leaves.
Newest(q, n) == SubSeq(q, (IF Len(q) > n THEN Len(q) - n ELSE 0) + 1, Len(q))

\* An ordered dict of at most `size`, with an entry set and moved to its end.
Put(q, entry, size) ==
  LET same == {i \in DOMAIN q : q[i].of = entry.of}
      others == IF same = {} THEN q ELSE RemoveAt(q, CHOOSE i \in same : TRUE) IN
    Newest(Append(others, entry), size)

SummaryOf(prefix) == {summaries[i].made : i \in {j \in 1..Len(summaries) : summaries[j].of = prefix}}

\* The turns before the recent ones, of which there is to be a summary.
OlderThan(n) == IF n > RecentTurns THEN n - RecentTurns ELSE 0

\* _summary_for: nobody writes it yet and it is not there.
ToWrite(c, n) ==
  {<<c, OlderThan(n)>>} \ ({<<c, 0>>} \cup {w.of : w \in writing} \cup {s.of : s \in ToSet(summaries)})

\* Mutant of FoldFrom: the base is taken from one look and the summary from another.
FoldFromTwoLooks(prefix) ==
  LET base == Max({k \in 1..(prefix[2] - 1) : k = 1 \/ SummaryOf(<<prefix[1], k>>) # {}} \cup {0})
      previous == IF SummaryOf(<<prefix[1], base>>) = {} THEN <<>>
                  ELSE CHOOSE made \in SummaryOf(<<prefix[1], base>>) : TRUE IN
    previous \o [i \in 1..(prefix[2] - base) |-> base + i]

\* _compute_summary begins: the longest summary of a part, with what it says.
FoldFrom(prefix) ==
  LET earlier == {k \in 1..(prefix[2] - 1) : SummaryOf(<<prefix[1], k>>) # {}}
      base == Max(earlier \cup {0})
      previous == IF base = 0 THEN <<>> ELSE CHOOSE made \in SummaryOf(<<prefix[1], base>>) : TRUE IN
    previous \o [i \in 1..(prefix[2] - base) |-> base + i]

BeginSummary(w) ==
  /\ w \in writing /\ w.step = "begun"
  /\ writing' = (writing \ {w}) \cup {[w EXCEPT !.step = "asking", !.from = FoldFrom(w.of)]}
  /\ UNCHANGED <<said, summaries, memo, handed>>

\* The model has answered: the summary is the newest, and the oldest go.  When it
\* has nothing to say, or raises, there is none.
EndSummary(w) ==
  /\ w \in writing /\ w.step = "asking"
  /\ writing' = writing \ {w}
  /\ \/ summaries' = Put(summaries, [of |-> w.of, made |-> w.from], SummarySize)
     \/ UNCHANGED summaries
  /\ UNCHANGED <<said, memo, handed>>
-----------------------------------------------------------------------------
\* resolve_reference: the latest reply, when the message refers back.
Referent(turns, back) ==
  IF back THEN Max({0} \cup {i \in 1..Len(turns) : turns[i].role = "assistant"}) ELSE 0

\* The room the header and the note of what "this" is take.
Fixed(turns, back, budget) ==
  HeaderSize + (IF Referent(turns, back) # 0 /\ NoteSize <= budget \div 2 THEN NoteSize ELSE 0)

\* The order in which the recent turns get their share: what is referred to, or
\* else the latest reply, and then the newest first.
Goes(turns, back, i, j) ==
  LET replies == {k \in (OlderThan(Len(turns)) + 1)..Len(turns) : turns[k].role = "assistant"}
      star == IF Referent(turns, back) \in replies THEN Referent(turns, back) ELSE Max(replies \cup {0}) IN
    i # j /\ (i = star \/ (j # star /\ i > j))

\* What a recent turn may take of the window's share, room being what is left.
Share(turns, back, room, i) ==
  LET recent == (OlderThan(Len(turns)) + 1)..Len(turns)
      earlier == [j \in DOMAIN turns |-> IF j \in recent /\ Goes(turns, back, j, i) THEN Size(turns[j]) ELSE 0]
      taken == Total(earlier, Len(turns))
      pool == (room * 7) \div 10 IN
    Min({Size(turns[i]), IF pool > taken THEN pool - taken ELSE 0})

\* render: the pieces of a turn that are shown, all of them, or the first ones
\* that fit beside the note of what is left out.
PiecesShown(turn, share) ==
  LET room == IF share > OmissionSize THEN share - OmissionSize ELSE 0 IN
    IF Size(turn) <= share THEN Len(turn.pieces)
    ELSE IF room < LeastShown THEN 0
    ELSE Max({n \in 0..Len(turn.pieces) : Total(turn.pieces, n) <= room})

\* What is written of a turn whose first pieces are shown.
Written(turn, share) == IF Size(turn) <= share THEN Size(turn) ELSE Min({share, Size(turn)})

\* The retrieval: any of the pieces that are not shown and fit what is left, their
\* rank being a number; those of the turn referred to match always.
Retrieved(turns, back, shown, left) ==
  LET candidates == UNION {{<<i, p>> : p \in (shown[i] + 1)..Len(turns[i].pieces)} : i \in DOMAIN turns}
      SizeOf(S) == MapThenSumSet(LAMBDA piece : turns[piece[1]].pieces[piece[2]], S) IN
    IF left <= LeastLeft THEN {{}}
    ELSE {S \in SUBSET candidates :
            /\ SizeOf(S) <= left
            /\ \A piece \in candidates \ S :
                 piece[1] = Referent(turns, back) => SizeOf(S \cup {piece}) > left}

\* _assemble.
Assembled(c, turns, back, budget) ==
  LET n == Len(turns)
      older == OlderThan(n)
      fixed == Fixed(turns, back, budget)
      fits == fixed + Total([i \in 1..n |-> Size(turns[i])], n) <= budget
      summary == IF older = 0 THEN {} ELSE SummaryOf(<<c, older>>)
      \* A summary is one unit long and an outline a unit for each turn it lists.
      useful == summary # {} /\ 1 <= (budget * 3) \div 10
      listed == Min({older, (budget * 15) \div 100})
      room == budget - Min({budget, fixed + (IF useful THEN 1 ELSE listed)})
      share == [i \in 1..n |-> IF i > older THEN Share(turns, back, room, i) ELSE 0]
      shown == [i \in 1..n |-> IF i > older THEN PiecesShown(turns[i], share[i]) ELSE 0]
      used == Total([i \in 1..n |-> IF i > older THEN Written(turns[i], share[i]) ELSE 0], n) IN
    IF fits
    THEN {[NoContext EXCEPT !.of = <<c, n, back, budget>>, !.whole = 1..n]}
    ELSE {[of |-> <<c, n, back, budget>>,
           older |-> IF useful THEN CHOOSE made \in summary : TRUE ELSE <<>>,
           outline |-> IF useful THEN {} ELSE (older - listed + 1)..older,
           whole |-> {i \in (older + 1)..n : Size(turns[i]) <= share[i]},
           part |-> UNION {{<<i, p>> : p \in 1..shown[i]} : i \in (older + 1)..n},
           found |-> found] : found \in Retrieved(turns, back, shown, room - Min({room, used}))}

\* build_context: what was made for these very inputs, or what is made now; a
\* summary that is not there is begun.
BuildContext(c) ==
  \E back \in BOOLEAN, budget \in Budgets :
    LET key == <<c, Len(said[c]), back, budget>>
        known == {i \in DOMAIN memo : memo[i].of = key} IN
      /\ said[c] # <<>>
      /\ \/ \E i \in known :
              /\ handed' = memo[i] /\ memo' = Put(memo, memo[i], MemoSize) /\ UNCHANGED writing
         \/ /\ known = {}
            /\ \E context \in Assembled(c, said[c], back, budget) :
                 /\ handed' = context /\ memo' = Put(memo, context, MemoSize)
                 /\ writing' = writing \cup
                      IF context.whole = 1..Len(said[c]) THEN {}
                      ELSE {[of |-> prefix, step |-> "begun", from |-> <<>>] : prefix \in ToWrite(c, Len(said[c]))}
      /\ UNCHANGED <<said, summaries>>

ContextNext ==
  \/ \E c \in Conversations : SayMore(c) \/ BuildContext(c)
  \/ \E w \in writing : BeginSummary(w) \/ EndSummary(w)

ContextSpec == ContextInit /\ [][ContextNext]_contextvars
-----------------------------------------------------------------------------
\* A summary tells of every turn of its part of the conversation, in order and
\* once, however many others it was made from and whatever was dropped meanwhile.
SummariesTellItAll ==
  \A s \in ToSet(summaries) : s.made = [i \in 1..s.of[2] |-> i]

\* One thread at a time asks the model for one summary.
OneWriterEach == \A v, w \in writing : v.of = w.of => v = w

\* What a model is told is of the conversation it is in: the summary is of the
\* turns that are not quoted; no piece of a turn is given twice; and the reply
\* "this" refers to is cut short only when every turn of its length is.
ToldWhatWasSaid ==
  handed.of # <<>> =>
    LET c == handed.of[1]
        n == handed.of[2]
        turns == SubSeq(said[c], 1, n)
        older == OlderThan(n)
        referent == Referent(turns, handed.of[3]) IN
      /\ handed.older # <<>> => handed.older = [i \in 1..older |-> i]
      /\ handed.part \cap handed.found = {}
      /\ referent > older /\ (\E i \in handed.whole : Size(turns[i]) >= Size(turns[referent]))
           => referent \in handed.whole

ContextTellsTheConversation == SummariesTellItAll /\ OneWriterEach /\ ToldWhatWasSaid
=============================================================================
