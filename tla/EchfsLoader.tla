----------------------------- MODULE EchfsLoader -----------------------------
(***************************************************************************)
(* The second reader of an echfs volume: echfs_load of                     *)
(* src/bootmgr/stage2/echfs.asm, with which the boot manager finds the     *)
(* kernel on the volume that echfs-utils (Echfs) wrote. It shares no code  *)
(* with the tool: it works out the layout for itself, scans the directory  *)
(* block by block and walks the chain through the allocation table.        *)
(*                                                                         *)
(* It only reads, so it is a function of the image. Its result is the      *)
(* sequence of blocks it leaves in memory, or Failure when it prints an    *)
(* error and stops. Disk I/O errors of the BIOS are left out, and so are   *)
(* volumes of 2^32 blocks and more (a partition has at most 2^32 sectors). *)
(* Block sizes of 512 KiB and more are excluded by LoaderAssumption.       *)
(***************************************************************************)
EXTENDS Echfs

CONSTANTS
    ChunkWords,     \* table words in the 16 sectors of one disk read: 1024
    ChunkEntries,   \* directory entries in them: 32
    TableSpan       \* table words in 4 GiB: 2^29

\* echfs_alloc_per_block is a 16-bit word.
ASSUME LoaderAssumption ==
    /\ ChunkWords \in Nat \ {0} /\ ChunkEntries \in Nat \ {0}
    /\ TableSpan \in Nat \ {0, 1}
    /\ FatPerBlock < 64 * ChunkWords

Failure == [loaded |-> FALSE, blocks |-> <<>>]
Loaded(blocks) == [loaded |-> TRUE, blocks |-> blocks]
NoEntry == [parent_id |-> -1, type |-> FILE_TYPE, name |-> "", payload |-> 0, size |-> 0]

\* hdd_read_sector reads a chunk at a time into DISK_BUFFER and copies it to
\* its destination. Blocks of the table and of the directory have DISK_BUFFER
\* itself for destination: every chunk read overwrites the first one there.
\* This is the place in the block (of `size` places) of what is at place w of
\* the buffer in the end.
Held(w, size, chunk) ==
    LET last == chunk * ((size - 1) \div chunk)   \* where the last chunk begins
    IN  IF w >= chunk THEN w
        ELSE IF last + w < size THEN last + w
        ELSE last - chunk + w

\* Words that a 16-bit offset reaches from DISK_BUFFER: 32 KiB, up to the end
\* of the segment. Larger offsets come round to the memory below the buffer,
\* which holds no table.
SegmentWords == 4 * ChunkWords
NoWord == RESERVED_BLOCK

\* The word of a block of the table that is read at an index.
TableWord(b, w) ==
    LET place == w % (2 * SegmentWords)
    IN  IF place < SegmentWords
        THEN fat[(b - RESERVED_BLOCKS) * FatPerBlock + Held(place, FatPerBlock, ChunkWords)]
        ELSE NoWord

\* Entries in a segment of 64 KiB, and as many values has a byte.
SegmentEntries == 8 * ChunkEntries

\* echfs_entries_per_block, a byte; `loop` takes zero for 2^16 turns, which go
\* through the whole segment again and again.
echfs_entries_per_block == EntriesPerBlock % SegmentEntries
Turns == IF echfs_entries_per_block = 0 THEN SegmentEntries ELSE echfs_entries_per_block

\* The entry that is compared at a slot of a block of the directory; none in
\* the memory below the buffer, nor in blocks outside the directory.
DirEntry(b, s) ==
    LET i == (b - (RESERVED_BLOCKS + fatsize)) * EntriesPerBlock
                + Held(s, EntriesPerBlock, ChunkEntries) + 1
    IN  IF s < SegmentEntries \div 2 /\ i \in 1..Len(dir) THEN dir[i] ELSE NoEntry

\* Mutant: echfs_next_block always reads the first block of the table.
NextBlockFirst(b) == TableWord(RESERVED_BLOCKS, b % FatPerBlock)

echfs_next_block(b) == TableWord(RESERVED_BLOCKS + b \div FatPerBlock, b % FatPerBlock)

\* The words of the table, as they are worked out from the number of blocks: in
\* bytes, as a number of 64 bits, whose high half is taken by a shift of 28.
AllocationWords == (Blocks % TableSpan) + TableSpan * (Blocks \div (TableSpan \div 2))

\* Where the directory starts: behind the table.
echfs_directory ==
    RESERVED_BLOCKS + AllocationWords \div FatPerBlock
        + (IF AllocationWords % FatPerBlock = 0 THEN 0 ELSE 1)

\* The n-th entry that the two scan loops come to, and how many they come to:
\* one block is read before the size of the directory is looked at.
Scanned(n) == DirEntry(echfs_directory + n \div Turns, n % Turns)
ToScan == Turns * (IF dirsize = 0 THEN 1 ELSE dirsize)

\* The entries of the root directory that have the name, whatever their type.
Hits(name) == {n \in 0..(ToScan - 1) :
                  Scanned(n).parent_id = ROOT_ID /\ Scanned(n).name = name}

\* The block that the read loop is at in its n-th turn. A word that is not a
\* block number leads out of the volume: what is read there is left out.
ReadAt(b, n) ==
    LET at[m \in 0..n] ==
            IF m = 0 THEN b
            ELSE IF at[m - 1] \in Word THEN echfs_next_block(at[m - 1])
            ELSE RESERVED_BLOCK
    IN  at[n]

\* The read loop: blocks are loaded one behind the other to the end of chain.
LoadChain(b) ==
    LET ends == {n \in 1..Blocks : ReadAt(b, n) = END_OF_CHAIN}
    IN  IF ends = {} THEN Failure
        ELSE Loaded([k \in 1..Min(ends) |-> data[ReadAt(b, k - 1)]])

\* The first entry with the name decides: it has to be a file.
echfs_load(name) ==
    IF Hits(name) = {} THEN Failure
    ELSE LET e == Scanned(Min(Hits(name)))
         IN  IF e.type = FILE_TYPE THEN LoadChain(e.payload) ELSE Failure

-----------------------------------------------------------------------------

\* Names a file or a directory of the root may have.
RootNames == {p[1] : p \in AllFiles \cup AllDirs}

\* A directory of the same name comes before the file. The tool keeps the
\* two apart by their type, the boot manager stops at the first.
Shadowed(name) ==
    \E i \in 1..Target(<<name>>, FILE_TYPE) :
        /\ dir[i].parent_id = ROOT_ID
        /\ dir[i].type = DIRECTORY_TYPE
        /\ dir[i].name = name

\* The boot manager loads exactly the contents that the tool stored under a
\* name of the root, and fails for every other name (a file behind a directory
\* of the same name among them).
LoadsStored ==
    pc = "idle" => \A name \in RootNames :
        echfs_load(name) =
            IF IsThere(<<name>>, FILE_TYPE) /\ ~Shadowed(name)
            THEN Loaded(ContentsAt(<<name>>))
            ELSE Failure

\* The volumes that the loader's buffer and registers are made for: blocks of
\* one chunk at most (8 KiB), fewer than 2^28 of them, and a directory. Stage 1
\* accepts other ones too. There LoadsStored fails: the chunks of a larger block
\* overwrite each other (Held), and from 2^28 blocks on the shift of 28 where 29
\* is meant leads past the directory (AllocationWords).
Loadable ==
    /\ FatPerBlock <= ChunkWords /\ EntriesPerBlock <= ChunkEntries
    /\ Blocks < TableSpan \div 2
    /\ dirsize # 0

\* LoaderAgrees: on every image of such a volume that the tool can produce, also
\* after commands that were cut short, the two programs agree on what is stored.
LoaderAgrees == Loadable => LoadsStored

=============================================================================
