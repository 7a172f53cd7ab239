---------------------------- MODULE Distributor ----------------------------
(***************************************************************************)
(* Where the packets of a block go (tunnel/nt_distributor.c): a table of   *)
(* SeqNum rows of DupNum entries, read from the configuration, tells for   *)
(* every block_index over which paths the packet is sent, once over each   *)
(* (on_encode of tunnel/nt_fec_processor.c).  An entry that is negative    *)
(* ends its row, and a row that starts with one ends the table.            *)
(***************************************************************************)
EXTENDS Integers, Sequences, FiniteSets

CONSTANTS SeqNum, DupNum,  \* MAX_SEQ_NUM, MAX_DUP_NUM: the size of the table
          PathNum,         \* the paths of the configuration
          Below, Above,    \* bounds: table entries are from -Below to Above
          MaxIndex         \* bound: the largest block_index

ASSUME DistributorAssumption ==
  /\ SeqNum \in Nat \ {0} /\ DupNum \in Nat \ {0} /\ PathNum \in Nat /\ MaxIndex \in Nat
  /\ Below \in Nat /\ Above \in Nat

VARIABLES seq2addr,  \* the table, row after row
          phase,     \* "new", "parsed", "refused", "trapped", or "idle" and
                     \* "sending" in turn
          seq_num,   \* the rows in use
          index,     \* block_index of the packet being sent
          dup,       \* the loop variable of on_encode
          sent       \* the paths the packet was sent over

distributorVars == <<seq2addr, phase, seq_num, index, dup, sent>>

PathIndex == (-Below)..Above
Row == 0..(SeqNum - 1)
Cell(row, d) == seq2addr[row * DupNum + d]

DistributorInit ==
  /\ seq2addr = [i \in 0..(SeqNum * DupNum - 1) |-> -1]
  /\ phase = "new"
  /\ seq_num = 0
  /\ index = 0
  /\ dup = 0
  /\ sent = <<>>

\* parse_seq2addr: any table at all, since the text may leave rows short or
\* empty, stop early and spell negative numbers.
parse_seq2addr ==
  /\ phase = "new"
  /\ seq2addr' \in [DOMAIN seq2addr -> PathIndex]
  /\ phase' = "parsed"
  /\ UNCHANGED <<seq_num, index, dup, sent>>

\* The loop of nt_distributor_init: up to the first row that is empty.
ActualSeqNum ==
  LET ends == {r \in Row : Cell(r, 0) < 0}
  IN  IF ends = {} THEN SeqNum ELSE CHOOSE r \in ends : \A s \in ends : r <= s

\* Mutant: only the first entry of a row is validated.
RowsValidFirst == \A r \in 0..(ActualSeqNum - 1) : Cell(r, 0) < PathNum

\* No entry of a row in use names a path that does not exist.
RowsValid == \A r \in 0..(ActualSeqNum - 1) : \A d \in 0..(DupNum - 1) : Cell(r, d) < PathNum

\* nt_distributor_init.
nt_distributor_init ==
  /\ phase = "parsed"
  /\ phase' = IF RowsValid THEN "idle" ELSE "refused"
  /\ seq_num' = IF RowsValid THEN ActualSeqNum ELSE seq_num
  /\ UNCHANGED <<seq2addr, index, dup, sent>>

\* on_encode is called for packet i of a block.
StartPacket(i) ==
  /\ phase = "idle" /\ seq_num > 0
  /\ phase' = "sending"
  /\ index' = i
  /\ dup' = 0
  /\ sent' = <<>>
  /\ UNCHANGED <<seq2addr, seq_num>>

\* A table without rows: nt_distributor_select takes block_index modulo zero.
SelectTraps ==
  /\ phase = "idle" /\ seq_num = 0
  /\ phase' = "trapped"
  /\ UNCHANGED <<seq2addr, seq_num, index, dup, sent>>

\* The table entry nt_distributor_select looks at.
Selected == Cell(index % seq_num, dup)

HasPath == dup < DupNum /\ Selected >= 0

\* nt_distributor_select returns a path, and the packet is sent over it; an
\* error of the socket is counted, and the loop goes on all the same.
SendPath ==
  /\ phase = "sending" /\ HasPath
  /\ sent' = Append(sent, Selected)
  /\ dup' = dup + 1
  /\ UNCHANGED <<seq2addr, phase, seq_num, index>>

\* nt_distributor_select returns NULL and on_encode returns.
PathsDone ==
  /\ phase = "sending" /\ ~HasPath
  /\ phase' = "idle"
  /\ UNCHANGED <<seq2addr, seq_num, index, dup, sent>>

\* The tools stop when their table is refused.  tunnel/main.c does not look:
\* it goes on with a distributor that was never written, and what that does is
\* undefined.
Ended == phase \in {"refused", "trapped"}

DistributorNext ==
  \/ parse_seq2addr \/ nt_distributor_init \/ SendPath \/ PathsDone \/ SelectTraps
  \/ \E i \in 0..MaxIndex : StartPacket(i)
  \/ Ended /\ UNCHANGED distributorVars

DistributorSpec == DistributorInit /\ [][DistributorNext]_distributorVars
-----------------------------------------------------------------------------
(* Properties. *)

\* The one validation at start-up covers every entry that nt_distributor_select
\* reaches later, however large block_index is: a packet is sent over paths of
\* the configuration only, and no packet of a block is forgotten, whatever the
\* rows in use hold.  Only a table that begins with a negative entry has no
\* row to take for it.
EveryPacketHasItsPaths ==
  /\ \A i \in DOMAIN sent : sent[i] \in 0..(PathNum - 1)
  /\ phase = "sending" /\ ~HasPath => sent # <<>>
  /\ phase = "trapped" => Cell(0, 0) < 0


-----------------------------------------------------------------------------
(* What EveryPacketHasItsPaths needs in order to be inductive. *)

\* The rows in use have a first entry, and none of their entries names a path
\* that does not exist; only a table that begins with a negative entry has none.
RowsInUse ==
  /\ seq_num \in 0..SeqNum
  /\ \A r \in 0..(seq_num - 1) :
       Cell(r, 0) >= 0 /\ \A d \in 0..(DupNum - 1) : Cell(r, d) < PathNum
  /\ seq_num = 0 => Cell(0, 0) < 0

DistributorInv ==
  /\ phase \in {"new", "parsed", "refused", "trapped", "idle", "sending"}
  /\ seq2addr \in [0..(SeqNum * DupNum - 1) -> Int]
  /\ sent \in Seq(0..(PathNum - 1))
  /\ phase \in {"idle", "sending"} => RowsInUse
  /\ phase = "sending" =>
       seq_num > 0 /\ index \in Nat /\ dup \in 0..DupNum /\ (dup > 0 => sent # <<>>)
  /\ phase = "trapped" => Cell(0, 0) < 0
=============================================================================
