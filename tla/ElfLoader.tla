------------------------------- MODULE ElfLoader -------------------------------
(***************************************************************************)
(* The ELF parser of lib/remoteproc/elf_loader.c. Every function is pure:  *)
(* it takes the image, what has been read of it so far and the piece of    *)
(* the file at hand, and gives what the C function returns and writes.     *)
(*                                                                         *)
(* The 32 bit and the 64 bit variant of each accessor read the same        *)
(* fields; the fields of a file are the record ElfImage. Sizes and offsets *)
(* are in abstract units; an entry of a header table is one unit.          *)
(*                                                                         *)
(* load_state packs three numbers into one int with disjoint masks; here   *)
(* it is a record of the three: hdr (ELF_STATE_MASK), ldr                  *)
(* (RPROC_LOADER_MASK) and nseg (ELF_NEXT_SEGMENT_MASK).                   *)
(***************************************************************************)
EXTENDS Naturals, Sequences, FiniteSetsExt

CONSTANTS NextSegmentMask,  \* largest segment number the state can hold
          ANY,              \* RPROC_LOAD_ANYADDR and METAL_BAD_PHYS
          NoInfo,           \* img_info is NULL
          Failed            \* a negative value was returned

HdrStates == {"init", "phdrs", "shdrs", "shstrtab", "complete"}
LdrStates == {"not_ready", "ready_to_load", "post_data_load", "load_complete"}
LoadState == [hdr : HdrStates, ldr : LdrStates, nseg : 0..NextSegmentMask]
InitState == [hdr |-> "init", ldr |-> "not_ready", nseg |-> 0]

\* A program header: PT_LOAD or not, where its bytes are in the file, where
\* they go, and how many there are in the file and in memory.
Segment == [load : BOOLEAN, offset : Nat, da : Nat, filesz : Nat, memsz : Nat]

\* What the ELF header and the section headers of a file say. rsc is the
\* section .resource_table (size 0: there is none), str the section with the
\* names of the sections (str.ok: e_shstrndx is a section).
ElfImage == [magic : BOOLEAN, size : Nat, ehdr : Nat, entry : Nat,
             phoff : Nat, segs : Seq(Segment), shoff : Nat, shnum : Nat,
             str : [ok : BOOLEAN, offset : Nat, size : Nat],
             rsc : [da : Nat, offset : Nat, size : Nat]]

\* struct elf32_info and elf64_info: the state and the three tables. A table
\* is not there, or a copy of the bytes of the file it should hold, or a copy
\* of others.
Table == {"none", "good", "bad"}
ElfInfo == [state : LoadState, phdrs : Table, shdrs : Table, shstrtab : Table]
ASSUME ParserAssumption == NextSegmentMask \in Nat /\ NoInfo \notin ElfInfo /\ ANY \notin Nat

NewInfo == [state |-> [InitState EXCEPT !.hdr = "phdrs"],
            phdrs |-> "none", shdrs |-> "none", shstrtab |-> "none"]

\* The piece of the file at hand: it is said to hold len units from offset;
\* the pointer img_data points to the unit at of the file.
Chunk == [at : Nat, offset : Nat, len : Nat]

\* Whether the chunk is said to hold size units from off, and the copy of
\* them that is made.
Holds(chunk, off, size) == chunk.offset <= off /\ off + size <= chunk.offset + chunk.len
Copy(chunk) == IF chunk.at = chunk.offset THEN "good" ELSE "bad"

\* Results of elf_load_header: more of the file is needed, the headers are
\* complete, or a negative value (no copy is made, the outputs keep the value
\* they had).
Need(info, off, size) == [ret |-> info.state, info |-> info, noffset |-> off, nlen |-> size]
Negative(info, out) == [ret |-> Failed, info |-> info,
                        noffset |-> out.noffset, nlen |-> out.nlen]
Headers(info, out) == [ret |-> info.state, info |-> info, noffset |-> out.noffset, nlen |-> 0]

\* elf_identify: the image starts with the four bytes of ELFMAG.
elf_identify(img, len) == len > 0 /\ img.magic

\* The section names, the section headers and the program headers: each asks
\* for its bytes when the chunk does not hold them, and goes on to the next
\* table when it has copied them. nomem names the allocation that fails.
LoadShstrtab(img, info, chunk, out, nomem) ==
    IF ~img.str.ok THEN Negative(info, out)
    ELSE IF ~Holds(chunk, img.str.offset, img.str.size)
    THEN Need(info, img.str.offset, img.str.size)
    ELSE IF nomem = "shstrtab" THEN Negative(info, out)
    ELSE Headers([info EXCEPT !.shstrtab = Copy(chunk), !.state.hdr = "complete"], out)

LoadShdrs(img, info, chunk, out, nomem) ==
    IF img.shnum = 0 THEN Headers([info EXCEPT !.state.hdr = "complete"], out)
    ELSE IF ~Holds(chunk, img.shoff, img.shnum) THEN Need(info, img.shoff, img.shnum)
    ELSE IF nomem = "shdrs" THEN Negative(info, out)
    ELSE LoadShstrtab(img, [info EXCEPT !.shdrs = Copy(chunk), !.state.hdr = "shstrtab"],
                      chunk, out, nomem)

LoadPhdrs(img, info, chunk, out, nomem) ==
    IF ~Holds(chunk, img.phoff, Len(img.segs)) THEN Need(info, img.phoff, Len(img.segs))
    ELSE IF nomem = "phdrs" THEN Negative(info, out)
    ELSE LoadShdrs(img, [info EXCEPT !.phdrs = Copy(chunk), !.state.hdr = "shdrs",
                                     !.state.ldr = "ready_to_load"],
                   chunk, out, nomem)

\* elf_load_header: with the ELF header at hand, as many of the tables as the
\* chunk holds. When all headers are there the outputs are left alone.
elf_load_header(img, info, last, chunk, out, nomem) ==
    IF last = InitState /\ chunk.len < img.ehdr
    THEN [ret |-> InitState, info |-> info, noffset |-> 0, nlen |-> img.ehdr]
    ELSE IF last = InitState /\ info = NoInfo /\ nomem = "info" THEN Negative(info, out)
    ELSE LET i == IF last # InitState THEN info
                  ELSE IF info = NoInfo THEN NewInfo
                  ELSE [info EXCEPT !.state = NewInfo.state]
             l == IF last = InitState THEN i.state ELSE last
         IN IF l # i.state THEN Negative(i, out)
            ELSE CASE l.hdr = "phdrs" -> LoadPhdrs(img, i, chunk, out, nomem)
                   [] l.hdr = "shdrs" -> LoadShdrs(img, i, chunk, out, nomem)
                   [] l.hdr = "shstrtab" -> LoadShstrtab(img, i, chunk, out, nomem)
                   [] OTHER -> [ret |-> l, info |-> i,
                                noffset |-> out.noffset, nlen |-> out.nlen]

\* elf_next_load_segment from segment n: the next one of type PT_LOAD. When
\* there is none it has still stored the address and the file offset of the
\* headers it skipped.
elf_next_load_segment(img, n, out) ==
    LET rest == (n + 1)..Len(img.segs)
        loads == {i \in rest : img.segs[i].load}
        i == IF loads # {} THEN Min(loads) ELSE Len(img.segs)
    IN [found |-> loads # {},
        nseg |-> IF rest = {} THEN n ELSE i,
        da |-> IF rest = {} THEN out.da ELSE img.segs[i].da,
        noffset |-> IF rest = {} THEN out.noffset ELSE img.segs[i].offset,
        nlen |-> IF loads = {} THEN out.nlen ELSE img.segs[i].filesz,
        nmemsize |-> IF loads = {} THEN out.nmemsize ELSE img.segs[i].memsz]

\* elf_load: the next segment while there are segments, then the headers that
\* are still missing, then nothing more. The number of the next segment is
\* compared with e_phnum before, and stored after, it is cut to the mask.
LoadSegment_Stays(img, info, out) ==
    LET s == elf_next_load_segment(img, info.state.nseg, out)
    IN [ret |-> info.state, info |-> info, da |-> s.da,
        noffset |-> s.noffset, nlen |-> s.nlen, nmemsize |-> s.nmemsize]
LoadSegment(img, info, out) ==
    LET s == elf_next_load_segment(img, info.state.nseg, out)
        last == s.found /\ s.nseg = Len(img.segs)
        st == [info.state EXCEPT !.nseg = s.nseg % (NextSegmentMask + 1),
                                 !.ldr = IF last THEN "post_data_load" ELSE @]
    IN [ret |-> st, info |-> [info EXCEPT !.state = st], da |-> s.da,
        noffset |-> s.noffset, nlen |-> s.nlen, nmemsize |-> s.nmemsize]

PostDataLoad(img, info, last, chunk, out, nomem) ==
    LET h == IF info.state.hdr = "complete"
             THEN [ret |-> info.state, info |-> info, noffset |-> out.noffset, nlen |-> 0]
             ELSE elf_load_header(img, info, last, chunk, out, nomem)
        done == h.ret # Failed /\ h.info.state.hdr = "complete"
        st == [h.info.state EXCEPT !.ldr = IF done THEN "load_complete" ELSE @]
    IN [ret |-> IF h.ret = Failed THEN Failed ELSE st,
        info |-> [h.info EXCEPT !.state = st],
        da |-> IF h.ret = Failed \/ info.state.hdr = "complete" THEN out.da ELSE ANY,
        noffset |-> h.noffset, nlen |-> IF done THEN 0 ELSE h.nlen,
        nmemsize |-> out.nmemsize]

elf_load(img, info, last, chunk, out, nomem) ==
    CASE info.state.ldr = "ready_to_load" -> LoadSegment(img, info, out)
      [] info.state.ldr = "post_data_load" -> PostDataLoad(img, info, last, chunk, out, nomem)
      [] OTHER -> [ret |-> info.state, info |-> info, da |-> out.da,
                   noffset |-> out.noffset, nlen |-> out.nlen, nmemsize |-> out.nmemsize]

\* elf_locate_rsc_table: an error until all headers are there, else the
\* section .resource_table, of size 0 when there is none.
elf_locate_rsc_table(img, info, out) ==
    IF info = NoInfo \/ info.state.hdr # "complete"
    THEN [ok |-> FALSE, rsc |-> out]
    ELSE IF "none" \in {info.shdrs, info.shstrtab} \/ img.rsc.size = 0
    THEN [ok |-> TRUE, rsc |-> [out EXCEPT !.size = 0]]
    ELSE [ok |-> TRUE, rsc |-> img.rsc]

\* elf_get_entry: the entry point, METAL_BAD_PHYS without image information.
elf_get_entry(img, info) == IF info = NoInfo THEN ANY ELSE img.entry

\* What elf_release gives back.
elf_release(info) ==
    IF info = NoInfo THEN {}
    ELSE {"info"} \cup {t \in {"phdrs", "shdrs", "shstrtab"} : info[t] # "none"}
================================================================================
