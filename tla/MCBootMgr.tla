----------------------------- MODULE MCBootMgr -----------------------------
(* Two families of machines. The first are plain ones with every well-     *)
(* formed memory map of three adjacent areas in a memory of six 2-byte     *)
(* pages: where the areas end, and whether each is usable, reserved, of an *)
(* undefined type, usable with the ACPI 3.0 "ignore me" attribute, or not  *)
(* reported at all. Reserved areas may start and end in the middle of a    *)
(* page; usable ones do so only inside the reserved low page. An empty     *)
(* entry may come first. No page is shared by two usable areas. The kernel *)
(* runs from RAM, so a map has some usable memory above the low page. The  *)
(* second family has one map, and one thing of the machine that is not     *)
(* plain: a part that is missing, a drive, a block size, or a monitor      *)
(* together with a list of up to three video modes.                        *)
EXTENDS BootMgr

TopPage == 6
Addr == 0..(TopPage * PageSize)

Entry(from, to, kind) ==
    [base |-> from, length |-> to - from,
     type |-> CASE kind = "usable" -> 1 [] kind = "disabled" -> 1
                [] kind = "reserved" -> 2 [] kind = "undefined" -> 7,
     size |-> IF kind = "disabled" THEN 24 ELSE 20,
     enabled |-> FALSE]

Kind == {"usable", "reserved", "disabled", "undefined", "gap"}

\* Usable areas begin and end on a page boundary, or lie in the low memory;
\* so do those that only the attribute says to ignore.
Aligned(from, to, kind) ==
    kind \in {"usable", "disabled"} =>
        \/ from % PageSize = 0 /\ to % PageSize = 0
        \/ to <= LowPages * PageSize

Area(from, to, kind) ==
    IF kind = "gap" THEN <<>> ELSE <<Entry(from, to, kind)>>

ThreeAreas ==
    {<<c1, c2, c3, k1, k2, k3>> \in Addr \X Addr \X Addr \X Kind \X Kind \X Kind :
        /\ 0 < c1 /\ c1 < c2 /\ c2 < c3
        /\ Aligned(0, c1, k1) /\ Aligned(c1, c2, k2) /\ Aligned(c2, c3, k3)
        /\ (k1 = "usable" /\ k2 = "usable") => c1 % PageSize = 0
        /\ (k2 = "usable" /\ k3 = "usable") => c2 % PageSize = 0}

SomeRam(m) == \E i \in 1..Len(m) :
    /\ Usable(m[i]) /\ ~Ignored(m[i])
    /\ m[i].base + m[i].length > LowPages * PageSize

MCMaps ==
    {m \in {Area(0, t[1], t[4]) \o Area(t[1], t[2], t[5]) \o Area(t[2], t[3], t[6]) :
                t \in ThreeAreas} : SomeRam(m)}
    \cup {<<Entry(4, 4, "usable"), Entry(0, 12, "usable")>>,
          <<Entry(4, 4, "reserved"), Entry(2, 12, "usable")>>}

Mode(width, height, bpp, readable, sets) ==
    [readable |-> readable, sets |-> sets,
     info |-> [width |-> width, height |-> height, bpp |-> bpp]]

Text == Mode(640, 400, 4, TRUE, TRUE)
Shallow == Mode(1024, 768, 24, TRUE, TRUE)
Large == Mode(1024, 768, 32, TRUE, TRUE)
Broken == Mode(1024, 768, 32, TRUE, FALSE)
Unreadable == Mode(1024, 768, 32, FALSE, FALSE)
Standard == Mode(800, 600, 32, TRUE, TRUE)
StandardBroken == Mode(800, 600, 32, TRUE, FALSE)

\* 1024 by 768, as the monitor reports it.
Edid(blank) == <<[low |-> 0, high |-> 4, blank |-> blank], [low |-> 0, high |-> 3, blank |-> 0]>>

Plain ==
    [disk_reads |-> TRUE, active |-> TRUE, magic |-> TRUE, bytes_per_block |-> 2048,
     drive |-> 128, long_mode |-> TRUE, edd |-> "edd",
     map |-> <<Entry(0, 1, "usable"), Entry(1, 4, "reserved"), Entry(4, 12, "usable")>>,
     map_ends |-> "zero", a20 |-> 0, partition |-> 243, kernel |-> TRUE, rsdp |-> {1},
     vbe |-> TRUE, edid |-> Edid(0), modes |-> <<Text, Large>>]

Lacking ==
    {[Plain EXCEPT ![f] = FALSE] :
        f \in {"disk_reads", "active", "magic", "long_mode", "kernel", "vbe"}}
    \cup {[Plain EXCEPT !.edd = e, !.drive = d, !.partition = p] :
             e \in {"edd", "old", "none"}, d \in {0, 127, 128, 223, 224, 255}, p \in {131, 243}}
    \cup {[Plain EXCEPT !.bytes_per_block = n] :
             n \in {512, 2048, 4096, 8192, 16384, 24576, 32768, 65536, 90112}}
    \cup {[Plain EXCEPT !.a20 = n, !.rsdp = r] : n \in 0..4, r \in SUBSET (0..3)}
    \cup {[Plain EXCEPT !.map_ends = "fails"]}

ModeList == {Text, Shallow, Large, Broken, Unreadable, Standard, StandardBroken}

Screens ==
    {[Plain EXCEPT !.edid = e, !.modes = <<a, b, c>>] :
        e \in {<<>>, Edid(0), Edid(1)}, a \in ModeList, b \in ModeList, c \in ModeList}

MCFirmwares ==
    {[Plain EXCEPT !.map = m, !.map_ends = how] : m \in MCMaps, how \in {"zero", "carry"}}
    \cup Lacking \cup Screens

=============================================================================
