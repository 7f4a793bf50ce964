------------------------------- MODULE Deepfs ------------------------------
(***************************************************************************)
(* deepfs: a file system whose directories are all made when it is mounted *)
(* and gone when it is unmounted; in between it is only read.  A directory *)
(* is the sequence of the ids that lead to it.                             *)
(***************************************************************************)
EXTENDS Integers, Sequences, FiniteSets, SequencesExt

CONSTANTS
    DfOptions,    \* values of the mount option max_depth
    DfMaxMax,     \* DEEPFS_MAX_MAX_DEPTH, 0xff in the code
    DfMaxFails,   \* how many allocations fail in a mount: a bound for model checking
    DfMaxRoom     \* how many entries a getdents has room for: a bound likewise

ASSUME DeepfsAssumption ==
    /\ DfOptions \subseteq Nat /\ DfMaxMax \in Nat \ {0} /\ {DfMaxFails, DfMaxRoom} \subseteq Nat

VARIABLES
    df,       \* the mount: where it is, its option, what was made and what failed
    dfStack,  \* the calls of deepfs_dir_create that are in their loop, the innermost last
    dfList,   \* the listing of a directory: its file position and what it has returned
    dfOops    \* "none", or the pointer that was NULL: "root" or "depth"

dfVars == <<df, dfStack, dfList, dfOops>>

DfClosed == [dir |-> <<>>, pos |-> -1, seen |-> <<>>, end |-> FALSE]

DfInit ==
    /\ df = [pc |-> "unmounted", max |-> 0, dirs |-> {}, depths |-> {}, links |-> {}, fails |-> 0]
    /\ dfStack = << >> /\ dfList = DfClosed /\ dfOops = "none"

\* The subdirectories a directory of the given depth should have: how many.
DfNSubdirs(dir) == df.max - Len(dir)

-----------------------------------------------------------------------------
(* Mounting.                                                               *)

\* A mount that fails comes to deepfs_kill_sb without a root, which it prints.
DfMountFails == dfOops' = "root" /\ UNCHANGED <<df, dfStack>>

\* What is there when the depth file, or the link, of a directory was made or was not;
\* the root has no link.
DfWithDepth(dir, made) == IF made THEN df.depths \union {dir} ELSE df.depths
DfWithLink(dir, made) ==
    IF made /\ dir # << >> THEN df.links \union {dir} ELSE df.links

\* deepfs_dir_create up to its loop; of the files in it each may be missing.
DfMake(dir, max) ==
    \E depth, link \in BOOLEAN :
        LET fails == df.fails + (IF depth THEN 0 ELSE 1) + (IF link THEN 0 ELSE 1) IN
        /\ fails <= DfMaxFails
        /\ dir = << >> => link
        /\ df' = [df EXCEPT !.max = max, !.dirs = @ \union {dir}, !.fails = fails,
                            !.depths = DfWithDepth(dir, depth), !.links = DfWithLink(dir, link),
                            !.pc = "mounting"]

\* deepfs_parse_options.
DfOption(option) == option < DfMaxMax

DfMount(option) ==
    /\ df.pc = "unmounted"
    /\ \/ DfMountFails
       \/ DfOption(option) /\ DfMake(<< >>, option)
          /\ dfStack' = <<[dir |-> << >>, i |-> 0]>> /\ UNCHANGED dfOops
    /\ UNCHANGED dfList

\* The loop goes on to the next subdirectory.
DfSubdir ==
    /\ dfStack # << >> /\ Last(dfStack).i < DfNSubdirs(Last(dfStack).dir)
    /\ LET dir == Append(Last(dfStack).dir, Last(dfStack).i)
           rest == [dfStack EXCEPT ![Len(dfStack)].i = @ + 1]
       IN  \/ DfMake(dir, df.max) /\ dfStack' = Append(rest, [dir |-> dir, i |-> 0])
           \/ /\ df.fails < DfMaxFails
              /\ df' = [df EXCEPT !.fails = @ + 1] /\ dfStack' = rest
    /\ UNCHANGED <<dfList, dfOops>>

DfReturn ==
    /\ dfStack # << >> /\ Last(dfStack).i >= DfNSubdirs(Last(dfStack).dir)
    /\ dfStack' = Front(dfStack)
    /\ df' = [df EXCEPT !.pc = IF Len(dfStack) = 1 THEN "mounted" ELSE @]
    /\ UNCHANGED <<dfList, dfOops>>

DfUmount ==
    /\ df.pc = "mounted" /\ dfList = DfClosed
    /\ df' = [df EXCEPT !.pc = "gone", !.dirs = {}, !.depths = {}, !.links = {}]
    /\ UNCHANGED <<dfStack, dfList, dfOops>>

-----------------------------------------------------------------------------
(* Reading.                                                                *)

\* The ids of the subdirectories that a directory has.
DfThere(dir) == {id \in 0 .. DfNSubdirs(dir) - 1 : Append(dir, id) \in df.dirs}

\* list_add_tail put them on the list in the order they were made in, that of their ids.
DfInOrder(ids) ==
    CHOOSE s \in [1 .. Cardinality(ids) -> ids] :
        \A i, j \in 1 .. Cardinality(ids) : i < j => s[i] < s[j]

\* What a link points to: "../" and the next sibling.
DfLinkTarget(dir) ==
    [dir EXCEPT ![Len(dir)] = (@ + 1) % (df.max - Len(dir) + 1)]

DfOpen(dir) ==
    /\ df.pc = "mounted" /\ dfList = DfClosed /\ dir \in df.dirs
    /\ dfList' = [DfClosed EXCEPT !.dir = dir, !.pos = 0]
    /\ UNCHANGED <<df, dfStack, dfOops>>

\* Entries go by their place: the two dots are 0 and 1, the files "depth" and "link" are
\* 2 and 3, and a subdirectory is its id plus 4.
DfDepth == 2
DfLink == 3
DfFiles(dir) == IF dir \in df.links THEN <<0, 1, DfDepth, DfLink>> ELSE <<0, 1, DfDepth>>
DfSubdirs(dir) == {id + 4 : id \in DfThere(dir)}

\* Mutant of DfEmits: the entry at the position has been returned already.
DfEmitsNext(dir, pos) ==
    SubSeq(DfFiles(dir), pos + 1, Len(DfFiles(dir)))
      \o DfInOrder({e \in DfSubdirs(dir) : ~(e <= pos)})

\* deepfs_dir_iterate from a file position: what it emits when there is room for all.
DfEmits(dir, pos) ==
    SubSeq(DfFiles(dir), pos + 1, Len(DfFiles(dir)))
      \o DfInOrder({e \in DfSubdirs(dir) : ~(e < pos)})

\* A getdents: as much as there is room for.  The position goes on by one for every
\* entry, and by one for a link that is missing.
DfGetdents(room) ==
    /\ dfList.pos >= 0 /\ ~dfList.end
    /\ LET dir   == dfList.dir
           emits == DfEmits(dir, dfList.pos)
           n     == IF room < Len(emits) THEN room ELSE Len(emits)
           pos   == dfList.pos + n
       IN  IF dfList.pos <= DfDepth /\ dir \notin df.depths /\ pos >= DfDepth
           THEN dfOops' = "depth" /\ UNCHANGED dfList
           ELSE /\ dfList' = [dfList EXCEPT
                       !.pos = IF dfList.pos <= DfDepth /\ pos > DfDepth /\ dir \notin df.links
                               THEN pos + 1 ELSE pos,
                       !.seen = @ \o SubSeq(emits, 1, n),
                       !.end = n = 0]
                /\ UNCHANGED dfOops
    /\ UNCHANGED <<df, dfStack>>

DfClose ==
    /\ dfList # DfClosed
    /\ dfList' = DfClosed
    /\ UNCHANGED <<df, dfStack, dfOops>>

DfNext ==
    /\ dfOops = "none"
    /\ \/ \E option \in DfOptions : DfMount(option)
       \/ DfSubdir \/ DfReturn \/ DfUmount \/ DfClose
       \/ \E dir \in df.dirs : DfOpen(dir)
       \/ \E room \in 1 .. DfMaxRoom : DfGetdents(room)

\* deepfs by itself.
DfSpec == DfInit /\ [][DfNext]_dfVars

-----------------------------------------------------------------------------
(* Properties.                                                             *)

DfDirs == Seq(0 .. DfMaxMax)

\* The variables of deepfs have their types.
DfTypeOK ==
    /\ df.pc \in {"unmounted", "mounting", "mounted", "gone"}
    /\ df.max \in 0 .. DfMaxMax - 1 /\ df.fails \in 0 .. DfMaxFails
    /\ df.dirs \subseteq DfDirs /\ df.depths \subseteq df.dirs /\ df.links \subseteq df.dirs
    /\ dfStack \in Seq([dir : DfDirs, i : 0 .. DfMaxMax])
    /\ dfList.dir \in DfDirs /\ dfList.pos \in Int /\ dfList.end \in BOOLEAN
    /\ dfOops \in {"none", "root", "depth"}

\* Whether a directory has all its subdirectories.
DfComplete(dir) == DfThere(dir) = 0 .. DfNSubdirs(dir) - 1

\* A mount without a failure makes all directories and their depth files (test.sh walks
\* them), and a depth file is missing only where one failed.
DfTree ==
    /\ df.pc = "mounted" /\ df.fails = 0 =>
          (\A dir \in df.dirs : DfComplete(dir)) /\ df.depths = df.dirs
    /\ dfOops = "depth" => df.fails > 0

\* The tree is as it should be; and reading a directory, however little room there is
\* at a time, returns every entry, and returns it once if no subdirectory is missing.
DeepfsSound ==
    /\ DfTree
    /\ dfList.end =>
          LET dir == dfList.dir IN
          /\ ToSet(dfList.seen) = ToSet(DfFiles(dir)) \union DfSubdirs(dir)
          /\ DfComplete(dir) => IsInjective(dfList.seen)

\* What design.txt says of the links (16, 17), of a mount without a failure: each
\* directory contains one, and it leads to the directory whose id is the next one
\* modulo nsubdirs of the depth, which is 0 for the deepest directories.
DfLinksAsDesigned ==
    df.pc = "mounted" /\ df.fails = 0 =>
        \A dir \in df.dirs :
            /\ dir \in df.links
            /\ dir # << >> /\ DfNSubdirs(dir) > 0 =>
                  Last(DfLinkTarget(dir)) = (Last(dir) + 1) % DfNSubdirs(dir)
=============================================================================
