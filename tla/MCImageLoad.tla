------------------------------ MODULE MCImageLoad ------------------------------
(***************************************************************************)
(* ImageLoad for TLC. The files have an ELF header of two units, up to     *)
(* four program headers, segments inside one bank, across banks and above  *)
(* the tightly coupled memory, a resource table inside a segment, and the  *)
(* section headers behind the data, where linkers put them.                *)
(***************************************************************************)
EXTENDS ImageLoad, TLC

Load(o, d, f, m) == [load |-> TRUE, offset |-> o, da |-> d, filesz |-> f, memsz |-> m]
Note(o, d) == [load |-> FALSE, offset |-> o, da |-> d, filesz |-> 0, memsz |-> 0]

File(segs, section, shnum) ==
    [magic |-> TRUE, size |-> 14, ehdr |-> 2, entry |-> segs[1].da, phoff |-> 2,
     segs |-> segs, shoff |-> 10, shnum |-> shnum,
     str |-> [ok |-> TRUE, offset |-> 13, size |-> 1], rsc |-> section]

TableAtSix == [da |-> 1, offset |-> 7, size |-> 1]

\* Two segments, one across three banks with zeros behind it, one above.
Plain == File(<<Load(6, 0, 3, 5), Load(9, 10, 1, 1)>>, TableAtSix, 3)
\* Headers of other types before, between and behind the segments.
Notes == File(<<Note(6, 3), Load(6, 0, 3, 3), Note(6, 3), Load(9, 7, 1, 1)>>, NoSection, 3)
Trailing == File(<<Load(6, 0, 3, 3), Note(9, 11)>>, TableAtSix, 3)
\* A segment of zeros between two others, and no section headers at all.
Zeros == File(<<Load(6, 0, 2, 2), Load(8, 4, 0, 2), Load(8, 9, 1, 2)>>, NoSection, 0)
\* A table outside every segment, and a section name table that is not there.
Apart == File(<<Load(6, 4, 2, 3)>>, [da |-> 9, offset |-> 8, size |-> 2], 3)
NoNames == [Plain EXCEPT !.str.ok = FALSE]
NotElf == [Plain EXCEPT !.magic = FALSE]

SomeImages == {Plain, Notes, Trailing, Zeros, Apart, NoNames, NotElf}
StreamedImages == {Plain, Trailing, Zeros}

\* The files are of the kind the proofs of ImageLoadProofs are about.
ASSUME UsualImages == ImagesFit /\ SectionsApart /\ ImagesRegular

\* The ELF header is cut, the program headers are there, or the whole file.
SomeLengths(img) == {1, 6, img.size}
================================================================================
