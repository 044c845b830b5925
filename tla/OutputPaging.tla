------------------------------ MODULE OutputPaging ------------------------------
(***************************************************************************)
(* Reading an output in pages of bytes: ReadCommandOutput, and LogChunk    *)
(* for the logs of jobs, cut what they read with UTF8Page, so that no      *)
(* character is split; the reader asks for the next page at next_offset.   *)
(*                                                                         *)
(* A byte is the width of the character that it begins, 1 to 3, or Cont, a *)
(* continuation byte.  Any sequence of bytes may be in a file.             *)
(***************************************************************************)
EXTENDS Integers, SequencesExt

CONSTANTS
    Limits,   \* page sizes a reader may ask for
    MaxSize   \* bound: bytes of the file

ASSUME PagingConstantsOK == Limits \subseteq Nat \ {0} /\ MaxSize \in Nat

VARIABLES
    data,   \* the file
    limit,  \* page size of the reader
    pages,  \* bounds of the pages read so far: each a first byte and the one after the last
    ends    \* history: size of the file when each of them was read

pageVars == <<data, limit, pages, ends>>

Cont == 0
Utf8 == {Cont, 1, 2, 3}
UTFMax == 4

-----------------------------------------------------------------------------
(* CompleteUTF8Prefix, UTF8Page *)

\* utf8.FullRune: a whole character, or what can no longer become one.
FullRune(s) ==
    \/ s # <<>> /\ s[1] \in {Cont, 1}
    \/ s # <<>> /\ Len(s) >= s[1]
    \/ \E i \in 2 .. Len(s) : s[i] # Cont

\* utf8.DecodeRune: a byte that begins nothing counts as one.
RuneSize(s) ==
    IF s[1] # Cont /\ Len(s) >= s[1] /\ \A i \in 2 .. s[1] : s[i] = Cont THEN s[1] ELSE 1

From(s, i) == SubSeq(s, i, Len(s))

\* Mutated CompletePrefix: a page ends where the limit is.
AllBytes(s, hasMore) == Len(s)

\* How many bytes are left when a character cut off at the end is put back.
CompletePrefix(s, hasMore) ==
    IF ~hasMore \/ s = <<>> THEN Len(s)
    ELSE LET begins == {i \in 1 .. Len(s) : s[i] # Cont \/ i = 1}
             start  == CHOOSE i \in begins : \A j \in begins : j <= i
         IN IF FullRune(From(s, start)) THEN Len(s) ELSE start - 1

UTF8Page(s, n, hasMore) ==
    IF Len(s) <= n THEN CompletePrefix(s, hasMore)
    ELSE LET page == CompletePrefix(SubSeq(s, 1, n), TRUE)
         IN IF page > 0 THEN page ELSE RuneSize(s)

-----------------------------------------------------------------------------
(* A reader that asks for the next page from where the last one ended *)

PageInit ==
    /\ data = <<>>
    /\ limit \in Limits
    /\ pages = <<>>
    /\ ends = <<>>

\* The command is still running.
Grow ==
    /\ Len(data) < MaxSize
    /\ \E b \in Utf8 : data' = Append(data, b)
    /\ UNCHANGED <<limit, pages, ends>>

Offset == IF pages = <<>> THEN 0 ELSE pages[Len(pages)].next

\* Three bytes more than a page are read, so that its last character can be seen whole.
ReadCommandOutput ==
    LET size == Len(data)
        read == SubSeq(data, Offset + 1, Min({size, Offset + limit + UTFMax - 1}))
        more == Offset + Len(read) < size
    IN /\ Offset < size
       /\ pages' = Append(pages, [from |-> Offset, next |-> Offset + UTF8Page(read, limit, more)])
       /\ ends' = Append(ends, size)
       /\ UNCHANGED <<data, limit>>

PageNext == Grow \/ ReadCommandOutput

PageSpec == PageInit /\ [][PageNext]_pageVars

-----------------------------------------------------------------------------
\* Every page has something, no more than was asked for or one character, and begins where the
\* last one ended: a reader gets to the end, whatever bytes the file holds.
PagesAdvance ==
    \A i \in 1 .. Len(pages) :
        /\ pages[i].from = IF i = 1 THEN 0 ELSE pages[i - 1].next
        /\ pages[i].next \in pages[i].from + 1 .. Len(data)
        /\ pages[i].next - pages[i].from <= limit + UTFMax - 1
        /\ pages[i].next - pages[i].from > limit =>
              RuneSize(From(data, pages[i].from + 1)) = pages[i].next - pages[i].from

\* Ends of the characters that begin in a page and go on after it.
Across(page) == {n \in page.next + 1 .. Len(data) :
    \E first \in page.from + 1 .. page.next : first + RuneSize(From(data, first)) - 1 = n}

\* A page splits a character only when the command had not written all of it yet.
RunesWhole == \A i \in 1 .. Len(pages) : \A n \in Across(pages[i]) : n > ends[i]

\* A reader that follows next_offset reads every byte once and gets no character in two pieces
\* that the command had written in one.
PagesExact == PagesAdvance /\ RunesWhole

=============================================================================
