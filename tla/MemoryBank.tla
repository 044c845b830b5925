------------------------------- MODULE MemoryBank -------------------------------
(***************************************************************************)
(* The memory banks: memoryx.Engine over the table memories.  No           *)
(* transaction joins the read of a remember or an update to its write; the *)
(* request to the embedding service, of up to ten seconds, lies between    *)
(* them.  An update writes back the whole row it has read, except for the  *)
(* recall count.                                                           *)
(*                                                                         *)
(* A vector is named by the text it was computed for.  Time and scores are *)
(* left out: any row may be old enough to decay or to be pruned, and any   *)
(* rows of its banks may be the best for a query.                          *)
(***************************************************************************)
EXTENDS Integers, FiniteSets, FiniteSetsExt

CONSTANTS
    MaxIds,      \* bound: ids of rows
    Banks,       \* hosts; the global bank is one more
    Texts,       \* contents of memories
    Rememberers, \* calls of memory_remember
    Updaters,    \* calls of memory_update
    MaxRecalls   \* bound: recalls that are told apart

ASSUME MemoryConstantsOK ==
    /\ MaxIds \in Nat
    /\ Rememberers \cap Updaters = {}
    /\ MaxRecalls \in Nat

VARIABLES
    hostsLeft, \* hosts that have not been deleted
    memory,    \* the table: a row or NoMemory for every id
    calls      \* the calls: where they are, and the row they are to write

memVars == <<hostsLeft, memory, calls>>

MemIds == 1 .. MaxIds
GlobalBank == "global"
NoVector == "none"

\* Importance: 0 is what pruning takes for low, 1 the rest.
MemRows  == [bank : Banks \cup {GlobalBank}, content : Texts, importance : {0, 1},
             embedding : Texts \cup {NoVector}, recalls : 0 .. MaxRecalls]
NoMemory == [bank |-> "none"]
NoCall   == [at |-> "idle"]

MemInit ==
    /\ hostsLeft = Banks
    /\ memory = [i \in MemIds |-> NoMemory]
    /\ calls = [c \in Rememberers \cup Updaters |-> NoCall]

Ids(t) == {i \in MemIds : t[i] # NoMemory}

SameText(t, bank, text) == {i \in Ids(t) : t[i].bank = bank /\ t[i].content = text}

\* INTEGER PRIMARY KEY: the next id follows the greatest in use, so that the last one is reused.
NextId == 1 + Max({0} \cup Ids(memory))

-----------------------------------------------------------------------------
(* Remember, Update *)

Vectors(text) == {NoVector, text}

\* What a call is to write over the row it has read: all but the bank and the recalls.
WholeRow(i, text, importance, vector) ==
    [at |-> "write", id |-> i,
     content |-> text, importance |-> importance, embedding |-> vector]

\* FindMemoryByContent: any row with the text, or none; then the text is embedded if it can be.
Remember(c) ==
    /\ calls[c].at = "idle"
    /\ \E bank \in hostsLeft \cup {GlobalBank}, text \in Texts, importance \in {0, 1} :
          calls' \in
             IF SameText(memory, bank, text) = {}
             THEN {[calls EXCEPT ![c] =
                     [at |-> "add",
                      row |-> [bank |-> bank, content |-> text, importance |-> importance,
                               embedding |-> v, recalls |-> 0]]] : v \in Vectors(text)}
             ELSE {[calls EXCEPT ![c] =
                     WholeRow(i, memory[i].content, Max({importance, memory[i].importance}),
                           memory[i].embedding)]
                     : i \in SameText(memory, bank, text)}
    /\ UNCHANGED <<hostsLeft, memory>>

\* The foreign key refuses the row of a host that is gone.
AddMemory(c) ==
    /\ calls[c].at = "add"
    /\ NextId \in MemIds
    /\ calls' = [calls EXCEPT ![c] = NoCall]
    /\ IF calls[c].row.bank \in hostsLeft \cup {GlobalBank}
       THEN memory' = [memory EXCEPT ![NextId] = calls[c].row]
       ELSE UNCHANGED memory
    /\ UNCHANGED hostsLeft

\* Mutated Update: the new text keeps the vector when no other can be had.
UpdateKeeping(c) ==
    /\ calls[c].at = "idle"
    /\ \E i \in Ids(memory), text \in Texts, importance \in {0, 1} :
          \E v \in {memory[i].embedding, text} : calls' = [calls EXCEPT ![c] = WholeRow(i, text, importance, v)]
    /\ UNCHANGED <<hostsLeft, memory>>

\* The row has been read and its bank found among the hosts of the token.  A changed content
\* loses its vector and gets a new one if it can.
Update(c) ==
    /\ calls[c].at = "idle"
    /\ \E i \in Ids(memory), text \in Texts, importance \in {0, 1} :
          \E v \in IF text = memory[i].content THEN {memory[i].embedding} ELSE Vectors(text) :
             calls' = [calls EXCEPT ![c] = WholeRow(i, text, importance, v)]
    /\ UNCHANGED <<hostsLeft, memory>>

\* A row that has been deleted in the meantime gives an error.
UpdateMemory(c) ==
    /\ calls[c].at = "write"
    /\ calls' = [calls EXCEPT ![c] = NoCall]
    /\ IF calls[c].id \in Ids(memory)
       THEN memory' = [memory EXCEPT ![calls[c].id].content = calls[c].content,
                                     ![calls[c].id].importance = calls[c].importance,
                                     ![calls[c].id].embedding = calls[c].embedding]
       ELSE UNCHANGED memory
    /\ UNCHANGED hostsLeft

-----------------------------------------------------------------------------
(* Recall, forget, sleep *)

Counted(n) == Min({n, MaxRecalls})

\* The best of what the search found in the host's bank and the global one, all counted at once.
Recall(bank) ==
    /\ \E hits \in (SUBSET {i \in Ids(memory) : memory[i].bank \in {bank, GlobalBank}}) \ {{}} :
          memory' = [i \in MemIds |-> IF i \in hits
                                      THEN [memory[i] EXCEPT !.recalls = Counted(@ + 1)]
                                      ELSE memory[i]]
    /\ UNCHANGED <<hostsLeft, calls>>

DeleteMemory(i) ==
    /\ i \in Ids(memory)
    /\ memory' = [memory EXCEPT ![i] = NoMemory]
    /\ UNCHANGED <<hostsLeft, calls>>

\* Deleting a host deletes its memories in the same transaction.
DropBank(bank) ==
    /\ bank \in hostsLeft
    /\ hostsLeft' = hostsLeft \ {bank}
    /\ memory' = [i \in MemIds |-> IF memory[i].bank = bank THEN NoMemory ELSE memory[i]]
    /\ UNCHANGED calls

\* The most important one, then the oldest: ids grow with age among the rows there are.
Keeper(twins) ==
    Min({i \in twins : \A j \in twins : memory[j].importance <= memory[i].importance})

\* One transaction: of rows with the same text one stays, with the recalls of all.
DedupeMemories(bank) ==
    LET Twins(i) == SameText(memory, memory[i].bank, memory[i].content)
    IN /\ memory' = [i \in MemIds |->
             IF i \notin Ids(memory) \/ memory[i].bank # bank THEN memory[i]
             ELSE IF i # Keeper(Twins(i)) THEN NoMemory
             ELSE [memory[i] EXCEPT
                     !.recalls = Counted(SumFunction([j \in Twins(i) |-> memory[j].recalls]))]]
       /\ UNCHANGED <<hostsLeft, calls>>

\* Rows not used for a month lose a tenth; some of them become low.
DecayMemories(bank) ==
    /\ \E unused \in SUBSET {i \in Ids(memory) : memory[i].bank = bank} :
          memory' = [i \in MemIds |-> IF i \in unused THEN [memory[i] EXCEPT !.importance = 0]
                                      ELSE memory[i]]
    /\ UNCHANGED <<hostsLeft, calls>>

\* Mutated Prunable: low ones go, recalled or not.
Low(bank) == {i \in Ids(memory) : memory[i].bank = bank /\ memory[i].importance = 0}

Prunable(bank) ==
    {i \in Ids(memory) : memory[i].bank = bank /\ memory[i].importance = 0 /\ memory[i].recalls = 0}

PruneMemories(bank) ==
    /\ \E old \in SUBSET Prunable(bank) :
          memory' = [i \in MemIds |-> IF i \in old THEN NoMemory ELSE memory[i]]
    /\ UNCHANGED <<hostsLeft, calls>>

\* The three statements of Sleep, each its own transaction.
Sleep(bank) == DedupeMemories(bank) \/ DecayMemories(bank) \/ PruneMemories(bank)

MemNext ==
    \/ \E c \in Rememberers : Remember(c) \/ AddMemory(c)
    \/ \E c \in Updaters : Update(c)
    \/ \E c \in Rememberers \cup Updaters : UpdateMemory(c)
    \/ \E bank \in hostsLeft \cup {GlobalBank} : Recall(bank) \/ Sleep(bank)
    \/ \E i \in MemIds : DeleteMemory(i)
    \/ \E bank \in Banks : DropBank(bank)

MemSpec == MemInit /\ [][MemNext]_memVars

-----------------------------------------------------------------------------
\* A vector is that of the text it lies beside, whatever writes overlap and whether or not the
\* embedding service answers: a dense search never finds a memory by a text it had before.
EmbeddingMatches ==
    \A i \in Ids(memory) : memory[i].embedding \in Vectors(memory[i].content)

\* What has been recalled is never lost to Sleep, not even when a duplicate of it is merged away
\* and the rest pruned; and Sleep touches no other bank.
SleepKeepsRecalled ==
    [][\A bank \in Banks \cup {GlobalBank} : Sleep(bank) =>
          /\ \A i \in Ids(memory) : memory[i].recalls > 0 =>
                \E j \in SameText(memory', memory[i].bank, memory[i].content) :
                   memory'[j].recalls >= memory[i].recalls
          /\ \A i \in Ids(memory) : memory[i].bank # bank => memory'[i] = memory[i]]_memVars

=============================================================================
