----------------------------- MODULE Clipboard -----------------------------
(***************************************************************************)
(* What a bufhub clipboard holds: its buffer, the length of the data, and  *)
(* the positions of the files that read, write and seek in it and empty it *)
(* by opening it for writing only.  Bufhub.tla has the life of clipboards. *)
(* A byte is known by when it was written: since the clipboard was emptied *)
(* last ("new"), before that ("old"), or never ("zero").                   *)
(***************************************************************************)
EXTENDS Integers, FiniteSets

CONSTANTS
    ClFile,
    ClCap,      \* the module parameter bcap
    ClWord,     \* size_t arithmetic is modulo this
    ClMaxCount, ClMaxPos   \* lengths of a call and positions: bounds for model checking

ASSUME ClipboardAssumption ==
    /\ ClCap \in Nat \ {0} /\ {ClWord, ClMaxCount, ClMaxPos} \subseteq Nat
    /\ ClCap <= ClMaxPos /\ ClMaxPos < ClWord

VARIABLES
    clBuf, clLen,   \* buf and buf_len of struct bufhub_clipboard_dev
    clPos,          \* per file: its position, or Closed
    clSeek,         \* history: the open files that have used lseek
    clEmptied,      \* history: the open files that were open when another one emptied it
    clHole,         \* history: since it was emptied, a write began past the end or faulted
    clPast          \* what the last read returned of what is past the end: "nothing",
                    \* or "begun" before or "lost" after the end

clVars == <<clBuf, clLen, clPos, clSeek, clEmptied, clHole, clPast>>

Closed == -1
ClIndex == 0 .. (ClCap - 1)
ClOpened == {f \in ClFile : clPos[f] # Closed}

ClInit ==
    /\ clBuf = [i \in ClIndex |-> "zero"] /\ clLen = 0
    /\ clPos = [f \in ClFile |-> Closed]
    /\ clSeek = {} /\ clEmptied = {} /\ clHole = FALSE /\ clPast = "nothing"

\* O_WRONLY empties the clipboard, under the positions of the other files.
ClOpen(f, wronly) ==
    /\ clPos[f] = Closed
    /\ clPos' = [clPos EXCEPT ![f] = 0]
    /\ IF wronly
       THEN /\ clLen' = 0 /\ clHole' = FALSE
            /\ clBuf' = [i \in ClIndex |-> IF clBuf[i] = "new" THEN "old" ELSE clBuf[i]]
            /\ clEmptied' = clEmptied \union ClOpened
       ELSE UNCHANGED <<clBuf, clLen, clHole, clEmptied>>
    /\ UNCHANGED <<clSeek, clPast>>

ClClose(f) ==
    /\ clPos[f] # Closed
    /\ clPos' = [clPos EXCEPT ![f] = Closed]
    /\ clSeek' = clSeek \ {f} /\ clEmptied' = clEmptied \ {f}
    /\ UNCHANGED <<clBuf, clLen, clHole, clPast>>

\* default_llseek allows any position.
ClSeekTo(f, pos) ==
    /\ clPos[f] # Closed
    /\ clPos' = [clPos EXCEPT ![f] = pos]
    /\ clSeek' = clSeek \union {f}
    /\ UNCHANGED <<clBuf, clLen, clEmptied, clHole, clPast>>

ClLeast(a, b) == IF a < b THEN a ELSE b

\* The difference is unsigned: from a position past the end the whole count is read.
ClReadable(pos, count) == ClLeast(count, (clLen - pos) % ClWord)

\* After a fault the position stays, and the call returns how many bytes were not copied.
ClRead(f, count, missing) ==
    LET pos == clPos[f]
        n   == ClReadable(pos, count)
    IN  /\ pos # Closed /\ missing <= n
        /\ clPast' = IF pos + n - missing <= clLen \/ n = missing THEN "nothing"
                     ELSE IF pos <= clLen THEN "begun" ELSE "lost"
        /\ pos + n <= ClMaxPos
        /\ clPos' = [clPos EXCEPT ![f] = IF missing = 0 THEN pos + n ELSE pos]
        /\ UNCHANGED <<clBuf, clLen, clSeek, clEmptied, clHole>>

\* Mutant of ClEnd: the data ends where the last write did.
ClEndLast(pos) == pos
ClEnd(pos) == IF pos > clLen THEN pos ELSE clLen

\* A fault leaves what was not copied as it was, or cleared, and neither the position
\* nor the length is changed for what was copied.
ClWrite(f, count, missing) ==
    LET pos == clPos[f]
        n   == ClLeast(count, ClCap - pos)
    IN  /\ pos # Closed /\ pos < ClCap /\ missing <= n
        /\ \E cleared \in BOOLEAN :
              clBuf' = [i \in ClIndex |->
                          IF i \in pos .. (pos + n - missing - 1) THEN "new"
                          ELSE IF cleared /\ i \in pos .. (pos + n - 1) THEN "zero"
                          ELSE clBuf[i]]
        /\ clHole' = (clHole \/ pos > clLen \/ missing > 0)
        /\ IF missing = 0
           THEN clPos' = [clPos EXCEPT ![f] = pos + n] /\ clLen' = ClEnd(pos + n)
           ELSE UNCHANGED <<clPos, clLen>>
        /\ UNCHANGED <<clSeek, clEmptied, clPast>>

ClNext ==
    \E f \in ClFile :
        \/ \E wronly \in BOOLEAN : ClOpen(f, wronly)
        \/ ClClose(f)
        \/ \E pos \in 0 .. ClMaxPos : ClSeekTo(f, pos)
        \/ \E count, missing \in 0 .. ClMaxCount : ClRead(f, count, missing)
        \/ \E count, missing \in 0 .. ClMaxCount : ClWrite(f, count, missing)

-----------------------------------------------------------------------------
(* Properties.                                                             *)

\* The variables of a clipboard's contents have their types.
ClTypeOK ==
    /\ clBuf \in [ClIndex -> {"zero", "old", "new"}] /\ clLen \in Nat
    /\ clPos \in [ClFile -> Closed .. ClMaxPos]
    /\ clSeek \subseteq ClOpened /\ clEmptied \subseteq ClOpened
    /\ clHole \in BOOLEAN /\ clPast \in {"nothing", "begun", "lost"}

\* The data fits the buffer; what it holds was written since the clipboard was emptied
\* last (bufhub/test.c:209), unless a write, even of no byte, began past its end or one
\* faulted; a position is past the end only after a seek or after another file emptied
\* the clipboard; and only from there a read returns what is past the end.
ClipboardSound ==
    /\ clLen <= ClCap
    /\ ~clHole => \A i \in 0 .. (clLen - 1) : clBuf[i] = "new"
    /\ \A f \in ClFile : clPos[f] > clLen => f \in clSeek \union clEmptied
    /\ clPast # "begun"
=============================================================================
