------------------------------- MODULE Echfs -------------------------------
(***************************************************************************)
(* The image of an echidnaFS volume and the commands of                    *)
(* src/echfs-utils/echfs-utils.c that change it: format, mkdir and import. *)
(* The image outlives the tool: each command is a run of the program that  *)
(* can be cut short between two of its writes.                             *)
(*                                                                         *)
(* A volume is a sequence of blocks: reserved ones, the allocation table   *)
(* (one word for each block: free, reserved, end of chain, or the next     *)
(* block), the main directory, data. A path is a sequence of names; `abs`  *)
(* says whether it was written with a leading slash. The tool deletes      *)
(* nothing, so the entries in use are the first ones: dir is a sequence.   *)
(* Contents are modelled by block: block k of the file stored as p holds   *)
(* <<p, k>>.                                                               *)
(***************************************************************************)
EXTENDS Integers, Sequences, FiniteSets, FiniteSetsExt

CONSTANTS
    Blocks,             \* blocks of the image
    RESERVED_BLOCKS,    \* 16 in the code
    FatPerBlock,        \* table words in a block
    EntriesPerBlock,    \* ENTRIES_PER_BLOCK
    DirShare,           \* 20: one block in twenty is directory
    bytesperblock,
    ImportPaths,        \* destinations of imports: abs and names
    MkdirPaths,         \* arguments of mkdir: sequences of names
    Sizes               \* sizes of imported files, in bytes

Ceiling(a, b) == (a + b - 1) \div b

\* The layout that main computes.
fatsize == Ceiling(Blocks, FatPerBlock)
dirsize == Blocks \div DirShare
datastart == RESERVED_BLOCKS + fatsize + dirsize
Entries == dirsize * EntriesPerBlock

ASSUME EchfsAssumption ==
    /\ Blocks \in Nat /\ RESERVED_BLOCKS \in Nat
    /\ FatPerBlock \in Nat \ {0} /\ EntriesPerBlock \in Nat \ {0}
    /\ DirShare \in Nat \ {0} /\ bytesperblock \in Nat \ {0}
    /\ datastart <= Blocks
    /\ Sizes \subseteq Nat
    /\ \A p \in ImportPaths : p.names \in Seq(STRING) \ {<<>>} /\ p.abs \in BOOLEAN
    /\ MkdirPaths \subseteq Seq(STRING) \ {<<>>}

VARIABLES
    fat,        \* the allocation table
    dir,        \* the entries of the main directory
    data,       \* the contents of the blocks
    pc, job,    \* where the running command is, and its local variables
    cut         \* ghost: a command has been cut short since the last format

vars == <<fat, dir, data, pc, job, cut>>

Word == 0..(fatsize * FatPerBlock - 1)

FREE == 0
RESERVED_BLOCK == -1
END_OF_CHAIN == -2

FILE_TYPE == 0
DIRECTORY_TYPE == 1
ROOT_ID == 0

\* What a search or a path may yield instead of an entry or a directory.
SEARCH_FAILURE == -1
PANIC == -2

Nothing == <<>>
NoJob == [path |-> <<>>, abs |-> FALSE, size |-> 0, depth |-> 0, k |-> 0,
          start |-> 0, block |-> 0]

\* A block of a file that is stored under a path.
Block(path, k) == <<path, k>>

\* Blocks import_chain takes for a size: one even for an empty file.
BlocksOf(size) == IF size = 0 THEN 1 ELSE Ceiling(size, bytesperblock)

\* Mutant: format_pass2 does not reserve the directory.
FormattedShort ==
    [b \in Word |-> IF b < RESERVED_BLOCKS + fatsize THEN RESERVED_BLOCK ELSE FREE]

\* The allocation table after format.
Formatted == [b \in Word |-> IF b < datastart THEN RESERVED_BLOCK ELSE FREE]

Init ==
    /\ fat = Formatted
    /\ dir = <<>>
    /\ data = [b \in Word |-> Nothing]
    /\ pc = "idle"
    /\ job = NoJob
    /\ cut = FALSE

-----------------------------------------------------------------------------
(* search, path_resolver and get_free_id.                                  *)

\* Mutant: no check for the end of the directory.
searchUnbounded(name, parent, type) ==
    LET found == {i \in 1..Len(dir) : /\ dir[i].parent_id = parent
                                      /\ dir[i].type = type
                                      /\ dir[i].name = name}
    IN  IF found # {} THEN Min(found) ELSE SEARCH_FAILURE

\* The first entry with this name. A search that finds none ends at the
\* first unused entry; in a full directory rd_entry ends the program.
search(name, parent, type) ==
    LET found == {i \in 1..Len(dir) : /\ dir[i].parent_id = parent
                                      /\ dir[i].type = type
                                      /\ dir[i].name = name}
    IN  IF found # {} THEN Min(found)
        ELSE IF Len(dir) < Entries THEN SEARCH_FAILURE ELSE PANIC

\* The directory that a path without its last name leads to.
ParentId(path) ==
    LET walk[n \in 0..(Len(path) - 1)] ==
            IF n = 0 THEN ROOT_ID
            ELSE IF walk[n - 1] < 0 THEN walk[n - 1]
            ELSE LET i == search(path[n], walk[n - 1], DIRECTORY_TYPE)
                 IN  IF i < 0 THEN i ELSE dir[i].payload
    IN  walk[Len(path) - 1]

\* The entry of a path, once the directory it is in exists.
Target(path, type) == search(path[Len(path)], ParentId(path), type)

\* Mutant: get_free_id does not look at the numbers in use.
FreeIdAlwaysOne == 1

\* get_free_id: one more than the highest of the consecutive numbers so far.
get_free_id ==
    LET id[n \in 0..Len(dir)] ==
            IF n = 0 THEN 1
            ELSE IF dir[n].type = DIRECTORY_TYPE /\ dir[n].payload = id[n - 1]
            THEN id[n - 1] + 1
            ELSE id[n - 1]
    IN  id[Len(dir)]

-----------------------------------------------------------------------------
(* mkdir.                                                                  *)

NewEntry(path, type, payload, size) ==
    [parent_id |-> ParentId(path), type |-> type, name |-> path[Len(path)],
     payload |-> payload, size |-> size]

\* mkdir_cmd on a path other than the root: an existing directory, a missing
\* parent and a full directory all leave the image as it is.
mkdir_cmd(path) ==
    dir' = IF ParentId(path) >= 0 /\ Target(path, DIRECTORY_TYPE) = SEARCH_FAILURE
           THEN Append(dir, NewEntry(path, DIRECTORY_TYPE, get_free_id, 0))
           ELSE dir

Mkdir ==
    /\ pc = "idle"
    /\ \E path \in MkdirPaths : mkdir_cmd(path)
    /\ UNCHANGED <<fat, data, pc, job, cut>>

-----------------------------------------------------------------------------
(* import.                                                                 *)

FreeBlocks == {b \in Word : fat[b] = FREE}

\* Assumed of the user: the file fits. import_chain does not check it.
Room(size) == Cardinality({b \in FreeBlocks : b < Blocks}) >= BlocksOf(size)

Import ==
    /\ pc = "idle"
    /\ pc' = "dirs"
    /\ \E p \in ImportPaths, size \in Sizes :
          /\ Room(size)
          /\ job' = [NoJob EXCEPT !.path = p.names, !.abs = p.abs, !.size = size,
                                  !.depth = IF p.abs THEN 0 ELSE 1]
    /\ UNCHANGED <<fat, dir, data, cut>>

\* The next prefix of the destination; before a leading slash it is "".
Prefix == IF job.depth = 0 THEN <<"">> ELSE SubSeq(job.path, 1, job.depth)

\* As long as the destination's directory is missing, make the next prefix.
MakePrefix ==
    /\ pc = "dirs"
    /\ ParentId(job.path) = SEARCH_FAILURE
    /\ mkdir_cmd(Prefix)
    /\ job' = [job EXCEPT !.depth = @ + 1]
    /\ UNCHANGED <<fat, data, pc, cut>>

\* The directory is there: go on if the file is not. A search of a full
\* directory ends the program.
Check ==
    /\ pc = "dirs"
    /\ ParentId(job.path) # SEARCH_FAILURE
    /\ IF /\ ParentId(job.path) >= 0
          /\ Target(job.path, FILE_TYPE) = SEARCH_FAILURE
       THEN pc' = "find" /\ UNCHANGED job
       ELSE pc' = "idle" /\ job' = NoJob
    /\ UNCHANGED <<fat, dir, data, cut>>

\* The search of import_chain for a word of zero.
NextFree == Min(FreeBlocks)

\* import_chain: find a free block and link the previous one to it.
FindBlock ==
    /\ pc = "find"
    /\ pc' = "write"
    /\ job' = [job EXCEPT !.block = NextFree, !.k = @ + 1,
                          !.start = IF job.k = 0 THEN NextFree ELSE @]
    /\ fat' = IF job.k = 0 THEN fat ELSE [fat EXCEPT ![job.block] = NextFree]
    /\ UNCHANGED <<dir, data, cut>>

\* Mutant: the loop goes on to a block behind the end of the file.
MoreAlways == job.k <= BlocksOf(job.size)

More == job.k < BlocksOf(job.size)

\* Mutant: a last block that is not full is not written.
WriteBlockNoTail ==
    /\ pc = "write"
    /\ pc' = IF More THEN "find" ELSE "entry"
    /\ fat' = [fat EXCEPT ![job.block] = END_OF_CHAIN]
    /\ data' = IF More THEN [data EXCEPT ![job.block] = Block(job.path, job.k)] ELSE data
    /\ UNCHANGED <<dir, job, cut>>

\* import_chain: end the chain at the block, and fill it from the file.
WriteBlock ==
    /\ pc = "write"
    /\ pc' = IF More THEN "find" ELSE "entry"
    /\ fat' = [fat EXCEPT ![job.block] = END_OF_CHAIN]
    /\ data' = [data EXCEPT ![job.block] = Block(job.path, job.k)]
    /\ UNCHANGED <<dir, job, cut>>

\* The entry comes last.
WriteEntry ==
    /\ pc = "entry"
    /\ pc' = "idle"
    /\ job' = NoJob
    /\ dir' = Append(dir, NewEntry(job.path, FILE_TYPE, job.start, job.size))
    /\ UNCHANGED <<fat, data, cut>>

-----------------------------------------------------------------------------
(* format, and the end of a command before its time.                       *)

Format ==
    /\ pc = "idle"
    /\ fat' = Formatted
    /\ dir' = <<>>
    /\ data' = [b \in Word |-> Nothing]
    /\ cut' = FALSE
    /\ UNCHANGED <<pc, job>>

Killed ==
    /\ pc # "idle"
    /\ pc' = "idle"
    /\ job' = NoJob
    /\ cut' = TRUE
    /\ UNCHANGED <<fat, dir, data>>

Next ==
    \/ Mkdir \/ Import \/ MakePrefix \/ Check \/ FindBlock \/ WriteBlock
    \/ WriteEntry \/ Format \/ Killed

Spec == Init /\ [][Next]_vars

-----------------------------------------------------------------------------
(* Reading a volume: export.                                               *)

\* The n-th block of the chain that starts at block b, counted from 0.
Follow(b, n) ==
    LET at[m \in 0..n] ==
            IF m = 0 THEN b
            ELSE IF at[m - 1] \in Word THEN fat[at[m - 1]] ELSE END_OF_CHAIN
    IN  at[n]

\* export_chain: whole blocks as long as more than one is left to write, then
\* size % bytesperblock bytes of the next one. Pieces are <<contents, bytes>>.
export_chain(e) ==
    LET whole == Ceiling(e.size, bytesperblock) - 1
        rest == e.size % bytesperblock
    IN  [k \in 1..whole |-> <<data[Follow(e.payload, k - 1)], bytesperblock>>]
            \o (IF rest = 0 THEN <<>>
                ELSE <<<<data[Follow(e.payload, whole)], rest>>>>)

-----------------------------------------------------------------------------
(* Properties.                                                             *)

\* Destinations and their prefixes, and what mkdir and import may make.
AllFiles == {p.names : p \in ImportPaths}
AllDirs == {<<"">>} \cup MkdirPaths
              \cup UNION {{SubSeq(p, 1, n) : n \in 1..(Len(p) - 1)} : p \in AllFiles}

TypeOK ==
    /\ fat \in [Word -> {FREE, RESERVED_BLOCK, END_OF_CHAIN} \cup 1..(Blocks - 1)]
    /\ Len(dir) <= Entries
    /\ \A i \in 1..Len(dir) :
          dir[i].payload \in 1..(IF dir[i].type = FILE_TYPE THEN Blocks - 1 ELSE Entries)
    /\ pc \in {"idle", "dirs", "find", "write", "entry"}

\* What is in the directory: the files, and their blocks in order.
FilesOf(d) == {i \in 1..Len(d) : d[i].type = FILE_TYPE}
Chain(e) == {Follow(e.payload, n) : n \in 0..(BlocksOf(e.size) - 1)}

\* ChainsSound: the chain of every file has as many blocks as its size needs,
\* lies in the data area, ends there, and shares no block with another file,
\* whatever was imported, made or cut short afterwards.
ChainsSound ==
    /\ \A i \in FilesOf(dir) :
          /\ Chain(dir[i]) \subseteq datastart..(Blocks - 1)
          /\ Follow(dir[i].payload, BlocksOf(dir[i].size)) = END_OF_CHAIN
    /\ \A i, j \in FilesOf(dir) : i # j => Chain(dir[i]) \cap Chain(dir[j]) = {}

\* NoOrphans: as long as no command was cut short, every block that is taken
\* belongs to a file: no path through import leaks one.
NoOrphans ==
    pc = "idle" /\ ~cut =>
        \A b \in Word : fat[b] \notin {FREE, RESERVED_BLOCK} =>
            \E i \in FilesOf(dir) : b \in Chain(dir[i])

\* TreeSound: directory numbers are unique, every entry is in a directory
\* that exists, and no directory has two entries of the same type and name.
TreeSound ==
    LET D == {i \in 1..Len(dir) : dir[i].type = DIRECTORY_TYPE} IN
    /\ \A i, j \in D : dir[i].payload = dir[j].payload => i = j
    /\ \A i \in 1..Len(dir) :
          dir[i].parent_id = ROOT_ID \/ \E j \in D : dir[j].payload = dir[i].parent_id
    /\ \A i, j \in 1..Len(dir) :
          /\ dir[i].parent_id = dir[j].parent_id
          /\ dir[i].type = dir[j].type
          /\ dir[i].name = dir[j].name
          => i = j

\* A path as the tool resolves it, and what it reads there.
IsThere(path, type) == ParentId(path) >= 0 /\ Target(path, type) > 0
ContentsAt(path) ==
    LET e == dir[Target(path, FILE_TYPE)]
    IN  [k \in 1..BlocksOf(e.size) |-> data[Follow(e.payload, k - 1)]]

\* The contents a source file of some size has.
SourceOf(path) ==
    {[k \in 1..BlocksOf(size) |-> Block(path, k)] : size \in Sizes}

Store == INSTANCE FileStore WITH
    Dirs <- AllDirs,
    Files <- AllFiles,
    Contents <- SourceOf,
    dirs <- {path \in AllDirs : IsThere(path, DIRECTORY_TYPE)},
    files <- {[path |-> path, data |-> ContentsAt(path)] :
                 path \in {p \in AllFiles : IsThere(p, FILE_TYPE)}}

\* KeepsFiles: the image, read through path_resolver and the allocation
\* table, behaves as FileStore: a file appears whole when its entry is
\* written and is never changed after that, and no other command or crash
\* makes a file or a directory come or go.
KeepsFiles == Store!Spec

\* ExportFaithful: exporting a file that has been imported gives back its
\* contents, byte for byte ("exported file ... as ...").
ExportFaithful ==
    \A i \in FilesOf(dir) :
        LET n == dir[i].size
            left(k) == n - (k - 1) * bytesperblock
            bytes(k) == IF left(k) < bytesperblock THEN left(k) ELSE bytesperblock
        IN  export_chain(dir[i]) =
                [k \in 1..Ceiling(n, bytesperblock) |->
                    <<data[Follow(dir[i].payload, k - 1)], bytes(k)>>]

=============================================================================
