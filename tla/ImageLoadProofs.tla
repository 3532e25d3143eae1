---------------------------- MODULE ImageLoadProofs ----------------------------
(***************************************************************************)
(* Theorems about ImageLoad, for any images, any store and any failures.   *)
(***************************************************************************)
EXTENDS ImageLoad, WellFoundedInduction, TLAPS

\* A non-empty set of numbers has its least member.
LEMMA MinExists ==
    ASSUME NEW S \in SUBSET Nat, S # {}
    PROVE  Min(S) \in S /\ \A y \in S : Min(S) <= y
<1>1. \E x \in S : \A y \in S : ~ (<<y, x>> \in OpToRel(<, Nat))
  BY NatLessThanWellFounded, WFMin
<1>2. PICK x \in S : \A y \in S : ~ (<<y, x>> \in OpToRel(<, Nat))
  BY <1>1
<1>3. \A y \in S : <<y, x>> \in Nat \X Nat /\ <<y, x>>[1] = y /\ <<y, x>>[2] = x
  OBVIOUS
<1>4. ASSUME NEW y \in S PROVE ~ (y < x)
  BY <1>2, <1>3, Zenon DEF OpToRel
<1>5. \A y \in S : x <= y
  BY <1>4
<1> QED BY <1>5 DEF Min

(***************************************************************************)
(* The parser.                                                             *)
(***************************************************************************)
\* The states elf_load_header goes through: the program headers are there
\* from the moment segments can be loaded, and none is loaded before.
SoundState(s) ==
    /\ s \in LoadState /\ s.hdr # "init"
    /\ s.hdr = "phdrs" <=> s.ldr = "not_ready"
    /\ s.ldr = "not_ready" => s.nseg = 0

\* Image information that was copied from the right bytes.
SoundInfo(i) ==
    /\ i \in ElfInfo /\ SoundState(i.state)
    /\ SectionsApart => "bad" \notin {i.phdrs, i.shdrs, i.shstrtab}

\* The data at hand cannot be taken for the section headers or their names.
NotSections(img, ch) ==
    SectionsApart => /\ img.shnum # 0 => ~Holds(ch, img.shoff, img.shnum)
                     /\ ~Holds(ch, img.str.offset, img.str.size)

\* The data at hand for the headers that are missing: what img_data points
\* to, or something that is not taken for them.
RightBytes(img, info_, ch) ==
    ch.at = ch.offset \/ (info_.state.hdr # "phdrs" /\ NotSections(img, ch))

\* What elf_load_header returns, from the section names up.
HeaderResult(h, ldr, nseg) ==
    /\ SoundInfo(h.info) /\ h.info.state.ldr = ldr /\ h.info.state.nseg = nseg
    /\ h.ret \in {Failed, h.info.state} /\ h.noffset \in Nat /\ h.nlen \in Nat

\* elf_load_header at the section names: it has them, or asks for them.
LEMMA ShstrtabResult ==
    ASSUME NEW img \in ElfImage, NEW i, SoundInfo(i), i.state.hdr = "shstrtab",
           NEW ch \in Chunk, ch.at = ch.offset \/ NotSections(img, ch),
           NEW out, out.noffset \in Nat, out.nlen \in Nat, NEW f
    PROVE  HeaderResult(LoadShstrtab(img, i, ch, out, f), i.state.ldr, i.state.nseg)
<1> DEFINE j == [i EXCEPT !.shstrtab = Copy(ch), !.state.hdr = "complete"]
<1>1. img.str.offset \in Nat /\ img.str.size \in Nat
  BY DEF ElfImage
<1>2. ASSUME ch.at = ch.offset \/ ~SectionsApart
      PROVE  SoundInfo(j) /\ j.state.ldr = i.state.ldr /\ j.state.nseg = i.state.nseg
  BY <1>2 DEF SoundInfo, SoundState, ElfInfo, LoadState, HdrStates, Table, Copy
<1> HIDE DEF j
<1> QED BY <1>1, <1>2 DEF LoadShstrtab, HeaderResult, Negative, Need, Headers, NotSections, j

\* elf_load_header at the section headers: there are none, or it has them and
\* goes on to their names, or it asks for them.
LEMMA ShdrsResult ==
    ASSUME NEW img \in ElfImage, NEW i, SoundInfo(i), i.state.hdr = "shdrs",
           NEW ch \in Chunk, ch.at = ch.offset \/ NotSections(img, ch),
           NEW out, out.noffset \in Nat, out.nlen \in Nat, NEW f
    PROVE  HeaderResult(LoadShdrs(img, i, ch, out, f), i.state.ldr, i.state.nseg)
<1> DEFINE j == [i EXCEPT !.shdrs = Copy(ch), !.state.hdr = "shstrtab"]
           k == [i EXCEPT !.state.hdr = "complete"]
<1>1. img.shoff \in Nat /\ img.shnum \in Nat
  BY DEF ElfImage
<1>2. SoundInfo(k) /\ k.state.ldr = i.state.ldr /\ k.state.nseg = i.state.nseg
  BY DEF SoundInfo, SoundState, ElfInfo, LoadState, HdrStates
<1>3. ASSUME ch.at = ch.offset \/ ~SectionsApart
      PROVE  /\ SoundInfo(j) /\ j.state.hdr = "shstrtab"
             /\ j.state.ldr = i.state.ldr /\ j.state.nseg = i.state.nseg
  BY <1>3 DEF SoundInfo, SoundState, ElfInfo, LoadState, HdrStates, Table, Copy
<1> HIDE DEF j, k
<1>4. ASSUME ch.at = ch.offset \/ ~SectionsApart
      PROVE  HeaderResult(LoadShstrtab(img, j, ch, out, f), i.state.ldr, i.state.nseg)
  BY <1>3, <1>4, ShstrtabResult
<1>5. CASE img.shnum = 0
  BY <1>2, <1>5 DEF LoadShdrs, HeaderResult, Headers, k
<1>6. CASE img.shnum # 0 /\ ~Holds(ch, img.shoff, img.shnum)
  BY <1>1, <1>6 DEF LoadShdrs, HeaderResult, Need
<1>7. CASE img.shnum # 0 /\ Holds(ch, img.shoff, img.shnum)
  <2>1. ch.at = ch.offset \/ ~SectionsApart
    BY <1>7 DEF NotSections
  <2>2. CASE f = "shdrs"
    BY <1>7, <2>2 DEF LoadShdrs, HeaderResult, Negative
  <2>3. CASE f # "shdrs"
    BY <1>4, <1>7, <2>1, <2>3 DEF LoadShdrs, j
  <2> QED BY <2>2, <2>3
<1> QED BY <1>5, <1>6, <1>7

\* elf_load_header at the program headers: it asks for them, or has them, and
\* then the loader is ready to load from segment 0 on.
LEMMA PhdrsResult ==
    ASSUME NEW img \in ElfImage, NEW i, SoundInfo(i), i.state.hdr = "phdrs",
           NEW ch \in Chunk, ch.at = ch.offset,
           NEW out, out.noffset \in Nat, out.nlen \in Nat, NEW f
    PROVE  LET h == LoadPhdrs(img, i, ch, out, f)
           IN  h.ret = Failed \/ HeaderResult(h, "not_ready", 0) \/ HeaderResult(h, "ready_to_load", 0)
<1> DEFINE j == [i EXCEPT !.phdrs = Copy(ch), !.state.hdr = "shdrs",
                          !.state.ldr = "ready_to_load"]
           h == LoadPhdrs(img, i, ch, out, f)
<1>1. img.phoff \in Nat /\ Len(img.segs) \in Nat
  BY DEF ElfImage
<1>2. i.state.ldr = "not_ready" /\ i.state.nseg = 0
  BY DEF SoundInfo, SoundState
<1>3. /\ SoundInfo(j) /\ j.state.hdr = "shdrs"
      /\ j.state.ldr = "ready_to_load" /\ j.state.nseg = 0
  BY <1>2 DEF SoundInfo, SoundState, ElfInfo, LoadState, HdrStates, LdrStates, Table, Copy
<1> HIDE DEF j
<1>4. HeaderResult(LoadShdrs(img, j, ch, out, f), "ready_to_load", 0)
  BY <1>3, ShdrsResult
<1>5. CASE ~Holds(ch, img.phoff, Len(img.segs))
  <2>1. h = Need(i, img.phoff, Len(img.segs))
    BY <1>5 DEF LoadPhdrs
  <2>2. HeaderResult(h, "not_ready", 0)
    BY <1>1, <1>2, <2>1 DEF HeaderResult, Need
  <2> QED BY <2>2
<1>6. CASE Holds(ch, img.phoff, Len(img.segs)) /\ f = "phdrs"
  <2>1. h.ret = Failed
    BY <1>6 DEF LoadPhdrs, Negative
  <2> QED BY <2>1
<1>7. CASE Holds(ch, img.phoff, Len(img.segs)) /\ f # "phdrs"
  <2>1. h = LoadShdrs(img, j, ch, out, f)
    BY <1>7 DEF LoadPhdrs, j
  <2> QED BY <1>4, <2>1
<1> QED BY <1>5, <1>6, <1>7

\* Between two calls of the parser: nothing has been parsed, or the state the
\* caller keeps is the one in the image information.
Parsed(st, info_) ==
    \/ st = InitState /\ info_ = NoInfo
    \/ SoundInfo(info_) /\ st = info_.state

\* elf_load_header leaves it so whenever it does not fail; once segments can
\* be loaded it reads on without touching their count.
HeaderOk(h, st, i) ==
    h.ret # Failed =>
      /\ Parsed(h.ret, h.info) /\ h.noffset \in Nat /\ h.nlen \in Nat
      /\ \/ h.ret = InitState
         \/ HeaderResult(h, "not_ready", 0)
         \/ HeaderResult(h, "ready_to_load", 0)
         \/ st # InitState /\ HeaderResult(h, i.state.ldr, i.state.nseg)
      /\ st # InitState /\ i.state.ldr # "not_ready" =>
           HeaderResult(h, i.state.ldr, i.state.nseg)

\* One call of elf_load_header, whatever header it is at.
LEMMA HeaderCall ==
    ASSUME NEW img \in ElfImage, NEW i, NEW st, Parsed(st, i),
           NEW ch \in Chunk, ch.at = ch.offset \/ (st # InitState /\ RightBytes(img, i, ch)),
           NEW out, out.noffset \in Nat, out.nlen \in Nat, NEW f
    PROVE  HeaderOk(elf_load_header(img, i, st, ch, out, f), st, i)
<1> SUFFICES ASSUME NEW h, h = elf_load_header(img, i, st, ch, out, f) PROVE HeaderOk(h, st, i)
  OBVIOUS
<1>r. ASSUME NEW l, NEW n, HeaderResult(h, l, n)
      PROVE  h.ret # Failed => Parsed(h.ret, h.info) /\ h.noffset \in Nat /\ h.nlen \in Nat
  BY <1>r DEF HeaderResult, Parsed
<1>n. SoundInfo(NewInfo) /\ NewInfo.state.hdr = "phdrs" /\ NewInfo.state # InitState
  BY ParserAssumption DEF SoundInfo, SoundState, NewInfo, InitState, ElfInfo, LoadState,
      HdrStates, LdrStates, Table
<1>1. CASE st = InitState /\ i = NoInfo
  <2>0. ch.at = ch.offset
    BY <1>1
  <2>1. CASE ch.len < img.ehdr
    <3>1. h = [ret |-> InitState, info |-> i, noffset |-> 0, nlen |-> img.ehdr]
      BY <1>1, <2>1 DEF elf_load_header
    <3>2. img.ehdr \in Nat
      BY DEF ElfImage
    <3>3. h.ret = InitState /\ h.info = i /\ h.noffset = 0 /\ h.nlen = img.ehdr
      BY <3>1
    <3> QED BY <1>1, <3>2, <3>3 DEF Parsed, HeaderOk
  <2>2. CASE ~(ch.len < img.ehdr) /\ f = "info"
    <3>1. h.ret = Failed
      BY <1>1, <2>2 DEF elf_load_header, Negative
    <3> QED BY <3>1 DEF HeaderOk
  <2>3. CASE ~(ch.len < img.ehdr) /\ f # "info"
    <3>1. h = LoadPhdrs(img, NewInfo, ch, out, f)
      BY <1>1, <1>n, <2>3 DEF elf_load_header
    <3>2. h.ret = Failed \/ HeaderResult(h, "not_ready", 0) \/ HeaderResult(h, "ready_to_load", 0)
      BY <1>n, <2>0, <3>1, PhdrsResult
    <3> QED BY <1>1, <1>r, <3>2 DEF HeaderOk
  <2> QED BY <2>1, <2>2, <2>3
<1>2. CASE SoundInfo(i) /\ st = i.state
  <2>1. st # InitState /\ SoundState(st) /\ st.hdr \in {"phdrs", "shdrs", "shstrtab", "complete"}
    BY <1>2 DEF SoundInfo, SoundState, InitState, LoadState, HdrStates
  <2>2. CASE st.hdr = "phdrs"
    <3>1. h = LoadPhdrs(img, i, ch, out, f)
      BY <1>2, <2>1, <2>2 DEF elf_load_header
    <3>2. ch.at = ch.offset
      BY <1>2, <2>2 DEF RightBytes
    <3>3. h.ret = Failed \/ HeaderResult(h, "not_ready", 0) \/ HeaderResult(h, "ready_to_load", 0)
      BY <1>2, <2>2, <3>1, <3>2, PhdrsResult
    <3>4. i.state.ldr = "not_ready"
      BY <1>2, <2>1, <2>2 DEF SoundState
    <3> QED BY <1>r, <3>3, <3>4 DEF HeaderOk
  <2>3. CASE st.hdr = "shdrs"
    <3>1. h = LoadShdrs(img, i, ch, out, f)
      BY <1>2, <2>1, <2>3 DEF elf_load_header
    <3>2. HeaderResult(h, i.state.ldr, i.state.nseg)
      BY <1>2, <2>3, <3>1, ShdrsResult DEF RightBytes
    <3> QED BY <1>r, <2>1, <3>2 DEF HeaderOk
  <2>4. CASE st.hdr = "shstrtab"
    <3>1. h = LoadShstrtab(img, i, ch, out, f)
      BY <1>2, <2>1, <2>4 DEF elf_load_header
    <3>2. HeaderResult(h, i.state.ldr, i.state.nseg)
      BY <1>2, <2>4, <3>1, ShstrtabResult DEF RightBytes
    <3> QED BY <1>r, <2>1, <3>2 DEF HeaderOk
  <2>5. CASE st.hdr = "complete"
    <3>1. h = [ret |-> st, info |-> i, noffset |-> out.noffset, nlen |-> out.nlen]
      BY <1>2, <2>1, <2>5 DEF elf_load_header
    <3>2. HeaderResult(h, i.state.ldr, i.state.nseg)
      BY <1>2, <3>1 DEF HeaderResult
    <3> QED BY <1>r, <2>1, <3>2 DEF HeaderOk
  <2> QED BY <2>1, <2>2, <2>3, <2>4, <2>5
<1> QED BY <1>1, <1>2 DEF Parsed

\* What elf_load asks for: room for a piece of the file, which is a whole
\* segment unless it is empty.
SegmentData(img, off, n) ==
    \E k \in DOMAIN img.segs :
      img.segs[k].load /\ off = img.segs[k].offset /\ n = img.segs[k].filesz
Fits(da, size) == da \in Nat /\ size \in Nat /\ (size = 0 \/ da + size <= Top)

LoadOk(d, img) ==
    d.ret # Failed =>
      /\ SoundInfo(d.info) /\ d.ret = d.info.state /\ d.ret.ldr # "not_ready"
      /\ d.da \in Nat \cup {ANY} /\ d.noffset \in Nat /\ d.nlen \in Nat /\ d.nmemsize \in Nat
      /\ ImagesFit /\ d.da # ANY => Fits(d.da, d.nmemsize) /\ d.nlen <= d.nmemsize
      /\ Loads(img) /\ d.da # ANY /\ d.nlen # 0 => SegmentData(img, d.noffset, d.nlen)

\* The next PT_LOAD segment. A length that was left in nlen survives only when
\* no segment is left, which the first call cannot meet.
LEMMA NextSegment ==
    ASSUME NEW img \in Images, NEW n \in Nat,
           NEW out, out.da = ANY, out.noffset \in Nat, out.nlen \in Nat, out.nmemsize = 0,
           out.nlen = 0 \/ n = 0
    PROVE  LET s == elf_next_load_segment(img, n, out)
           IN  /\ s.nseg \in Nat
               /\ s.da \in Nat \cup {ANY} /\ s.noffset \in Nat /\ s.nlen \in Nat
               /\ s.nmemsize \in Nat
               /\ ImagesFit /\ s.da # ANY => Fits(s.da, s.nmemsize) /\ s.nlen <= s.nmemsize
               /\ Loads(img) /\ s.da # ANY /\ s.nlen # 0 => SegmentData(img, s.noffset, s.nlen)
<1> DEFINE rest == (n + 1)..Len(img.segs)
           loads == {i \in rest : img.segs[i].load}
           i == IF loads # {} THEN Min(loads) ELSE Len(img.segs)
           s == elf_next_load_segment(img, n, out)
<1>1. img \in ElfImage /\ img.segs \in Seq(Segment) /\ Len(img.segs) \in Nat
  BY ImageAssumption DEF ElfImage
<1>2. loads # {} => i \in loads
  <2>1. loads \in SUBSET Nat
    BY <1>1
  <2> QED BY <2>1, MinExists
<1>3. rest # {} => i \in rest /\ i \in DOMAIN img.segs
  BY <1>1, <1>2
<1>4. \A k \in DOMAIN img.segs :
        /\ img.segs[k].da \in Nat /\ img.segs[k].offset \in Nat
        /\ img.segs[k].filesz \in Nat /\ img.segs[k].memsz \in Nat
  <2> TAKE k \in DOMAIN img.segs
  <2>1. img.segs[k] \in Segment
    BY <1>1
  <2> QED BY <2>1 DEF Segment
<1>5. s = [found |-> loads # {},
           nseg |-> IF rest = {} THEN n ELSE i,
           da |-> IF rest = {} THEN out.da ELSE img.segs[i].da,
           noffset |-> IF rest = {} THEN out.noffset ELSE img.segs[i].offset,
           nlen |-> IF loads = {} THEN out.nlen ELSE img.segs[i].filesz,
           nmemsize |-> IF loads = {} THEN out.nmemsize ELSE img.segs[i].memsz]
  BY DEF elf_next_load_segment
<1>6. Loads(img) /\ n = 0 => loads # {}
  BY <1>1 DEF Loads
<1>7. ImagesFit => Loads(img)
  BY DEF ImagesFit
<1>8. ImagesFit /\ loads # {} =>
        img.segs[i].filesz <= img.segs[i].memsz /\ img.segs[i].da + img.segs[i].memsz <= Top
  BY <1>2, <1>3 DEF ImagesFit
<1>9. loads # {} => rest # {} /\ img.segs[i].load
  BY <1>2
<1> HIDE DEF rest, loads, i
<1>10. CASE loads # {}
  <2>1. /\ s.nseg = i /\ s.da = img.segs[i].da /\ s.noffset = img.segs[i].offset
        /\ s.nlen = img.segs[i].filesz /\ s.nmemsize = img.segs[i].memsz
    BY <1>5, <1>9, <1>10
  <2>2. i \in DOMAIN img.segs /\ i \in Nat
    BY <1>1, <1>3, <1>9, <1>10
  <2> QED BY <1>4, <1>8, <1>9, <1>10, <2>1, <2>2 DEF Fits, SegmentData
<1>11. CASE loads = {}
  <2>1. /\ s.nlen = out.nlen /\ s.nmemsize = 0 /\ (Loads(img) => s.nlen = 0)
    BY <1>5, <1>6, <1>11
  <2>2. s.nseg \in Nat /\ s.da \in Nat \cup {ANY} /\ s.noffset \in Nat
    BY <1>1, <1>3, <1>4, <1>5
  <2> QED BY <1>7, <2>1, <2>2 DEF Fits
<1> QED BY <1>10, <1>11

\* elf_load in the state ready_to_load: the segment it asks for is a load segment of the image.
LEMMA SegmentCall ==
    ASSUME NEW img \in Images, NEW i, SoundInfo(i), i.state.ldr = "ready_to_load",
           NEW out, out.da = ANY, out.noffset \in Nat, out.nlen \in Nat, out.nmemsize = 0,
           out.nlen = 0 \/ i.state.nseg = 0
    PROVE  LoadOk(LoadSegment(img, i, out), img)
<1> DEFINE t == elf_next_load_segment(img, i.state.nseg, out)
           last_ == t.found /\ t.nseg = Len(img.segs)
           st == [i.state EXCEPT !.nseg = t.nseg % (NextSegmentMask + 1),
                                 !.ldr = IF last_ THEN "post_data_load" ELSE @]
<1>1. i.state.nseg \in Nat
  BY ParserAssumption DEF SoundInfo, SoundState, LoadState
<1>2. /\ t.nseg \in Nat
      /\ t.da \in Nat \cup {ANY} /\ t.noffset \in Nat /\ t.nlen \in Nat /\ t.nmemsize \in Nat
      /\ ImagesFit /\ t.da # ANY => Fits(t.da, t.nmemsize) /\ t.nlen <= t.nmemsize
      /\ Loads(img) /\ t.da # ANY /\ t.nlen # 0 => SegmentData(img, t.noffset, t.nlen)
  BY <1>1, NextSegment
<1>3. t.nseg % (NextSegmentMask + 1) \in 0..NextSegmentMask
  BY <1>2, ParserAssumption
<1>4. LoadSegment(img, i, out) =
        [ret |-> st, info |-> [i EXCEPT !.state = st], da |-> t.da,
         noffset |-> t.noffset, nlen |-> t.nlen, nmemsize |-> t.nmemsize]
  BY DEF LoadSegment
<1> HIDE DEF t, last_
<1>5. SoundState(st) /\ st.ldr # "not_ready"
  BY <1>3 DEF SoundInfo, SoundState, LoadState, LdrStates
<1> HIDE DEF st
<1>6. SoundInfo([i EXCEPT !.state = st]) /\ [i EXCEPT !.state = st].state = st
  BY <1>5 DEF SoundInfo, ElfInfo, SoundState
<1> SUFFICES ASSUME NEW d, d = LoadSegment(img, i, out) PROVE LoadOk(d, img)
  OBVIOUS
<1>7. /\ d.ret = st /\ d.info = [i EXCEPT !.state = st] /\ d.da = t.da
      /\ d.noffset = t.noffset /\ d.nlen = t.nlen /\ d.nmemsize = t.nmemsize
  BY <1>4
<1> QED BY <1>2, <1>5, <1>6, <1>7 DEF LoadOk

\* elf_load behind the data: it asks for headers only, or is complete.
LEMMA PostDataCall ==
    ASSUME NEW img \in Images, NEW i, SoundInfo(i), i.state.ldr = "post_data_load",
           NEW ch \in Chunk, ch.at = ch.offset \/ NotSections(img, ch),
           NEW out, out.da = ANY, out.noffset \in Nat, out.nlen \in Nat, out.nmemsize = 0,
           NEW f
    PROVE  LoadOk(PostDataLoad(img, i, i.state, ch, out, f), img)
<1> SUFFICES ASSUME NEW h,
                    h = IF i.state.hdr = "complete"
                        THEN [ret |-> i.state, info |-> i, noffset |-> out.noffset, nlen |-> 0]
                        ELSE elf_load_header(img, i, i.state, ch, out, f)
             PROVE  LoadOk(PostDataLoad(img, i, i.state, ch, out, f), img)
  OBVIOUS
<1> DEFINE done == h.ret # Failed /\ h.info.state.hdr = "complete"
           st == [h.info.state EXCEPT !.ldr = IF done THEN "load_complete" ELSE @]
           d == PostDataLoad(img, i, i.state, ch, out, f)
<1>1. img \in ElfImage
  BY ImageAssumption
<1>2. i.state # InitState /\ i.state.hdr # "phdrs" /\ Parsed(i.state, i)
  BY DEF SoundInfo, SoundState, InitState, Parsed
<1>3. ASSUME h.ret # Failed
      PROVE  SoundInfo(h.info) /\ h.info.state.ldr = "post_data_load"
             /\ h.noffset \in Nat /\ h.nlen \in Nat
  <2>1. CASE i.state.hdr = "complete"
    BY <2>1
  <2>2. CASE i.state.hdr # "complete"
    <3>a. RightBytes(img, i, ch)
      BY <1>2 DEF RightBytes
    <3>b. h = elf_load_header(img, i, i.state, ch, out, f)
      BY <2>2, Zenon
    <3>1. HeaderOk(h, i.state, i)
      BY <1>1, <1>2, <3>a, <3>b, HeaderCall
    <3>2. HeaderResult(h, i.state.ldr, i.state.nseg)
      BY <1>2, <1>3, <3>1 DEF HeaderOk
    <3> QED BY <3>2 DEF HeaderResult
  <2> QED BY <2>1, <2>2
<1>4. d = [ret |-> IF h.ret = Failed THEN Failed ELSE st,
           info |-> [h.info EXCEPT !.state = st],
           da |-> IF h.ret = Failed \/ i.state.hdr = "complete" THEN out.da ELSE ANY,
           noffset |-> h.noffset, nlen |-> IF done THEN 0 ELSE h.nlen,
           nmemsize |-> out.nmemsize]
  BY DEF PostDataLoad
<1>5. ASSUME h.ret # Failed PROVE SoundState(st) /\ st.ldr # "not_ready"
  BY <1>3, <1>5 DEF SoundInfo, SoundState, LoadState, LdrStates
<1> HIDE DEF st
<1>6. ASSUME h.ret # Failed
      PROVE  SoundInfo([h.info EXCEPT !.state = st]) /\ [h.info EXCEPT !.state = st].state = st
  BY <1>3, <1>5, <1>6 DEF SoundInfo, ElfInfo, SoundState
<1>7. /\ d.da = ANY /\ (d.ret # Failed => h.ret # Failed /\ d.ret = st)
      /\ d.info = [h.info EXCEPT !.state = st] /\ d.noffset = h.noffset
      /\ d.nlen \in {0, h.nlen} /\ d.nmemsize = 0
  BY <1>4
<1> HIDE DEF d
<1>8. LoadOk(d, img)
  BY <1>3, <1>5, <1>6, <1>7 DEF LoadOk
<1> QED BY <1>8 DEF d

\* elf_load, once segments can be loaded.
LEMMA LoadCall ==
    ASSUME NEW img \in Images, NEW i, SoundInfo(i), i.state.ldr # "not_ready",
           NEW ch \in Chunk, ch.at = ch.offset \/ NotSections(img, ch),
           NEW out, out.da = ANY, out.noffset \in Nat, out.nlen \in Nat, out.nmemsize = 0,
           out.nlen = 0 \/ i.state.nseg = 0, NEW f
    PROVE  LoadOk(elf_load(img, i, i.state, ch, out, f), img)
<1>1. i.state.ldr \in {"ready_to_load", "post_data_load", "load_complete"}
  BY DEF SoundInfo, SoundState, LoadState, LdrStates
<1>2. CASE i.state.ldr = "ready_to_load"
  <2>1. elf_load(img, i, i.state, ch, out, f) = LoadSegment(img, i, out)
    BY <1>2 DEF elf_load
  <2> QED BY <1>2, <2>1, SegmentCall
<1>3. CASE i.state.ldr = "post_data_load"
  <2>1. elf_load(img, i, i.state, ch, out, f) = PostDataLoad(img, i, i.state, ch, out, f)
    BY <1>3 DEF elf_load
  <2> QED BY <1>3, <2>1, PostDataCall
<1>4. CASE i.state.ldr = "load_complete"
  <2>1. elf_load(img, i, i.state, ch, out, f) =
          [ret |-> i.state, info |-> i, da |-> out.da,
           noffset |-> out.noffset, nlen |-> out.nlen, nmemsize |-> out.nmemsize]
    BY <1>4 DEF elf_load
  <2> QED BY <1>4, <2>1 DEF LoadOk
<1> QED BY <1>1, <1>2, <1>3, <1>4

(***************************************************************************)
(* Power for the memory that is written.                                   *)
(***************************************************************************)
\* All of a range of physical addresses that is tightly coupled memory has its
\* power nodes in N.
Tcm == TcmBase..(TcmBase + 4 * Bank - 1)
RangePowered(pa, size, N) == \A p \in pa..(pa + size - 1) : p \in Tcm => BankOf(p) \in N
Cells == (0..(Top - 1)) \cup (TcmBase..(TcmBase + 4 * Bank + Top))

\* r5_rproc_mmap requests every bank the new region touches.
LEMMA FreshPowered ==
    ASSUME NEW da, NEW size, Fits(da, size)
    PROVE  RangePowered(r5_rproc_mmap(da, size).pa, size, RequestedNodes(da, size))
<1> SUFFICES ASSUME NEW p \in r5_rproc_mmap(da, size).pa..(r5_rproc_mmap(da, size).pa + size - 1),
                    p \in Tcm
             PROVE  BankOf(p) \in RequestedNodes(da, size)
  BY DEF RangePowered
<1>0. /\ da \in Nat /\ size \in Nat /\ Bank \in Nat \ {0} /\ TcmBase \in Nat /\ Top \in Nat
      /\ TcmBase >= Top
  BY ImageAssumption DEF Fits
<1>1. CASE da <= 4 * Bank
  <2>1. r5_rproc_mmap(da, size).pa = TcmBase + da
    BY <1>1 DEF r5_rproc_mmap
  <2>2. /\ p \in Int /\ p >= TcmBase + da /\ p < TcmBase + da + size
        /\ p >= TcmBase /\ p < TcmBase + 4 * Bank
    BY <1>0, <2>1 DEF Tcm
  <2>3. CASE p < TcmBase + Bank
    BY <1>0, <1>1, <2>2, <2>3 DEF BankOf, RequestedNodes, PowerNodes
  <2>4. CASE p >= TcmBase + Bank /\ p < TcmBase + 2 * Bank
    <3>1. BankOf(p) = "TCM_1_A"
      BY <1>0, <2>2, <2>4 DEF BankOf
    <3>2. da <= 2 * Bank /\ da + size >= Bank
      BY <1>0, <2>2, <2>4
    <3> QED BY <1>0, <1>1, <3>1, <3>2 DEF RequestedNodes, PowerNodes
  <2>5. CASE p >= TcmBase + 2 * Bank /\ p < TcmBase + 3 * Bank
    <3>1. BankOf(p) = "TCM_0_B"
      BY <1>0, <2>2, <2>5 DEF BankOf
    <3>2. da <= 3 * Bank /\ da + size >= 2 * Bank
      BY <1>0, <2>2, <2>5
    <3> QED BY <1>0, <1>1, <3>1, <3>2 DEF RequestedNodes, PowerNodes
  <2>6. CASE p >= TcmBase + 3 * Bank
    <3>1. BankOf(p) = "TCM_1_B"
      BY <1>0, <2>2, <2>6 DEF BankOf
    <3>2. da <= 4 * Bank /\ da + size >= 3 * Bank
      BY <1>0, <2>2, <2>6
    <3> QED BY <1>0, <1>1, <3>1, <3>2 DEF RequestedNodes, PowerNodes
  <2> QED BY <1>0, <2>2, <2>3, <2>4, <2>5, <2>6
<1>2. CASE ~(da <= 4 * Bank)
  <2>1. r5_rproc_mmap(da, size).pa = da
    BY <1>2 DEF r5_rproc_mmap
  <2> QED BY <1>0, <2>1 DEF Tcm, Fits
<1> QED BY <1>1, <1>2

\* The instance, and the regions it knows, each with power.
Rproc == [state : RprocStates, loader : BOOLEAN, mems : Seq(Mem),
          bootaddr : Nat \cup {ANY}, rsc_table : {"none", "live", "errptr"}]
MemsPowered(M, N) == \A i \in DOMAIN M : RangePowered(M[i].pa, M[i].size, N)

\* Whether a region of M holds a range of device addresses.
Holding(M, da, size) == \E i \in DOMAIN M : M[i].da <= da /\ da + size <= M[i].da + M[i].size

\* remoteproc_mmap, known region or new one: the list of regions stays typed,
\* power is only added, and the address that is returned has power.
LEMMA MapResult ==
    ASSUME rproc.mems \in Seq(Mem), NEW da \in Nat, NEW size \in Nat, NEW f
    PROVE  /\ MapMems(da, size, f) \in Seq(Mem) /\ nodes \subseteq MapNodes(da, size)
           /\ f # "map" => Holding(MapMems(da, size, f), da, size)
           /\ Known(da, size) <=> Holding(rproc.mems, da, size)
           /\ MapPa(da, size, f) # ANY \/ f # "map" => MapPa(da, size, f) \in Nat
           /\ MemsPowered(rproc.mems, nodes) /\ Fits(da, size) =>
                /\ MemsPowered(MapMems(da, size, f), MapNodes(da, size))
                /\ MapPa(da, size, f) # ANY \/ f # "map" =>
                     RangePowered(MapPa(da, size, f), size, MapNodes(da, size))
<1> DEFINE S == remoteproc_get_mem(da, size)
           new == r5_rproc_mmap(da, size)
<1>0. /\ Bank \in Nat \ {0} /\ TcmBase \in Nat /\ Top \in Nat /\ DOMAIN rproc.mems = 1..Len(rproc.mems)
      /\ \A i \in DOMAIN rproc.mems : /\ rproc.mems[i].da \in Nat /\ rproc.mems[i].pa \in Nat
                                      /\ rproc.mems[i].size \in Nat
  <2>1. \A i \in DOMAIN rproc.mems : rproc.mems[i] \in Mem
    OBVIOUS
  <2> QED BY <2>1, ImageAssumption DEF Mem
<1>1. Known(da, size) <=> Holding(rproc.mems, da, size)
  BY DEF Known, Holding, remoteproc_get_mem
<1>2. \A N1, N2 : N1 \subseteq N2 /\ MemsPowered(rproc.mems, N1) => MemsPowered(rproc.mems, N2)
  BY DEF MemsPowered, RangePowered
<1>3. new \in Mem /\ new.da = da /\ new.size = size
  BY <1>0 DEF r5_rproc_mmap, Mem
<1>4. CASE Known(da, size)
  <2> DEFINE i == Min(S)
  <2>1. S \in SUBSET Nat /\ S # {}
    BY <1>0, <1>4 DEF remoteproc_get_mem, Known
  <2>2. i \in S
    BY <2>1, MinExists
  <2> HIDE DEF i
  <2>3. /\ i \in DOMAIN rproc.mems /\ rproc.mems[i].da <= da
        /\ da + size <= rproc.mems[i].da + rproc.mems[i].size
    BY <2>2 DEF remoteproc_get_mem
  <2>4. MapPa(da, size, f) = rproc.mems[i].pa + da - rproc.mems[i].da
    BY <1>4 DEF MapPa, remoteproc_datopa, i
  <2>5. MapMems(da, size, f) = rproc.mems /\ MapNodes(da, size) = nodes
    BY <1>4 DEF MapMems, MapNodes
  <2>6. MapPa(da, size, f) \in Nat
    BY <1>0, <2>3, <2>4
  <2>7. MemsPowered(rproc.mems, nodes) => RangePowered(MapPa(da, size, f), size, nodes)
    <3> SUFFICES ASSUME MemsPowered(rproc.mems, nodes),
                        NEW p \in MapPa(da, size, f)..(MapPa(da, size, f) + size - 1), p \in Tcm
                 PROVE  BankOf(p) \in nodes
      BY DEF RangePowered
    <3>0. \A a, b, c \in Nat : b <= da /\ da + size <= b + c =>
            \A q \in (a + da - b)..((a + da - b) + size - 1) : q \in a..(a + c - 1)
      OBVIOUS
    <3>1. p \in rproc.mems[i].pa..(rproc.mems[i].pa + rproc.mems[i].size - 1)
      BY <1>0, <2>3, <2>4, <3>0
    <3> QED BY <2>3, <3>1 DEF MemsPowered, RangePowered
  <2> QED BY <1>1, <1>4, <2>5, <2>6, <2>7
<1>5. CASE ~Known(da, size) /\ f = "map"
  <2>1. MapMems(da, size, f) = rproc.mems /\ MapNodes(da, size) = nodes \cup RequestedNodes(da, size)
        /\ MapPa(da, size, f) = ANY
    BY <1>5 DEF MapMems, MapNodes, MapPa
  <2> QED BY <1>1, <1>2, <1>5, <2>1
<1>6. CASE ~Known(da, size) /\ f # "map"
  <2>1. /\ MapMems(da, size, f) = Append(rproc.mems, new)
        /\ MapNodes(da, size) = nodes \cup RequestedNodes(da, size)
        /\ MapPa(da, size, f) = new.pa
    BY <1>6 DEF MapMems, MapNodes, MapPa
  <2>2. new.pa \in Nat
    BY <1>3 DEF Mem
  <2> DEFINE M == Append(rproc.mems, new)
             n == Len(rproc.mems) + 1
  <2>3. /\ M \in Seq(Mem) /\ n \in DOMAIN M /\ M[n] = new
        /\ \A i \in DOMAIN M : i # n => i \in DOMAIN rproc.mems /\ M[i] = rproc.mems[i]
    BY <1>0, <1>3
  <2> HIDE DEF M, n, new
  <2>4. Holding(M, da, size)
    BY <1>3, <2>3 DEF Holding
  <2>5. ASSUME MemsPowered(rproc.mems, nodes), Fits(da, size)
        PROVE  /\ RangePowered(new.pa, size, MapNodes(da, size))
               /\ MemsPowered(M, MapNodes(da, size))
    <3>1. RangePowered(new.pa, size, MapNodes(da, size))
      BY <2>1, <2>5, FreshPowered DEF RangePowered, new
    <3>2. MemsPowered(rproc.mems, MapNodes(da, size))
      BY <1>2, <2>1, <2>5
    <3>3. MemsPowered(M, MapNodes(da, size))
      BY <1>3, <2>3, <3>1, <3>2 DEF MemsPowered
    <3> QED BY <3>1, <3>3
  <2> QED BY <1>1, <1>6, <2>1, <2>2, <2>3, <2>4, <2>5 DEF M
<1> QED BY <1>4, <1>5, <1>6

\* Nothing is in a bank without power.
Powered(m, N) == \A pa \in Tcm : m[pa] # Untouched => BankOf(pa) \in N

\* Writing to a range with power keeps it so.
LEMMA WriteResult ==
    ASSUME DOMAIN tmem = Cells, NEW pa \in Nat, NEW off, NEW n \in Nat, NEW size \in Nat,
           NEW all \in Nat, n <= all, size <= all
    PROVE  /\ DOMAIN Written(tmem, pa, off, n, size) = Cells
           /\ \A N : /\ Powered(tmem, nodes) /\ nodes \subseteq N /\ RangePowered(pa, all, N)
                     => Powered(Written(tmem, pa, off, n, size), N)
<1> DEFINE m == Written(tmem, pa, off, n, size)
<1>0. /\ Bank \in Nat \ {0} /\ TcmBase \in Nat /\ Top \in Nat /\ Tcm \subseteq Cells
  BY ImageAssumption DEF Tcm, Cells
<1>1. DOMAIN m = Cells
  BY DEF Written
<1>2. \A p \in Cells : p \in pa..(pa + all - 1) \/ m[p] = tmem[p]
  BY DEF Written
<1>3. \A N : /\ Powered(tmem, nodes) /\ nodes \subseteq N /\ RangePowered(pa, all, N)
             => Powered(m, N)
  <2> HIDE DEF m
  <2> QED BY <1>0, <1>2 DEF Powered, RangePowered
<1> QED BY <1>1, <1>3

\* So does writing the table.
LEMMA TableResult ==
    ASSUME DOMAIN tmem = Cells, NEW pa \in Nat, NEW s, s.size \in Nat
    PROVE  /\ DOMAIN TableAt(tmem, pa, s) = Cells
           /\ \A N : /\ Powered(tmem, nodes) /\ nodes \subseteq N /\ RangePowered(pa, s.size, N)
                     => Powered(TableAt(tmem, pa, s), N)
<1> DEFINE m == TableAt(tmem, pa, s)
<1>0. /\ Bank \in Nat \ {0} /\ TcmBase \in Nat /\ Top \in Nat /\ Tcm \subseteq Cells
  BY ImageAssumption DEF Tcm, Cells
<1>1. DOMAIN m = Cells
  BY DEF TableAt
<1>2. \A p \in Cells : p \in pa..(pa + s.size - 1) \/ m[p] = tmem[p]
  BY DEF TableAt
<1>3. \A N : /\ Powered(tmem, nodes) /\ nodes \subseteq N /\ RangePowered(pa, s.size, N)
             => Powered(m, N)
  <2> HIDE DEF m
  <2> QED BY <1>0, <1>2 DEF Powered, RangePowered
<1> QED BY <1>1, <1>3

(***************************************************************************)
(* The control flow: the image store is open only while an image is        *)
(* loaded, as long as the blocking function is used.                       *)
(***************************************************************************)
LoadPcs == {"header", "locate", "data", "finish", "update"}
FlowInv ==
    /\ mode \in {"block", "noblock"} /\ store \in BOOLEAN /\ table \in {"none", "live", "errptr"}
    /\ pc \in {"load", "load_ret"} \cup LoadPcs => mode = "block"
    /\ pc \in {"nb_open", "nb_call", "nb_store"} => mode = "noblock"
    /\ store /\ mode = "block" => pc \in LoadPcs
    /\ pc = "load_ret" => ~store /\ info = NoInfo /\ table = "none"

\* Every step keeps to it.
LEMMA FlowStep == FlowInv /\ [Next]_vars => FlowInv'
<1> SUFFICES ASSUME FlowInv, [Next]_vars PROVE FlowInv'
  OBVIOUS
<1> USE DEF FlowInv, LoadPcs
<1>1. ASSUME Configure PROVE FlowInv'
  BY <1>1 DEF Configure, parse
<1>2. ASSUME OpenImage PROVE FlowInv'
  BY <1>2 DEF OpenImage
<1>f. ASSUME NEW r, FailLoad(r), mode = "block", UNCHANGED mode PROVE FlowInv'
  BY <1>f DEF FailLoad
<1>3. ASSUME LoadHeader PROVE FlowInv'
  <2>1. mode = "block" /\ UNCHANGED mode
    BY <1>3 DEF LoadHeader
  <2>2. (\E r : FailLoad(r)) \/ (pc' \in {"locate", pc} /\ UNCHANGED <<store, table>>)
    BY <1>3, Zenon DEF LoadHeader
  <2>3. pc = "header"
    BY <1>3 DEF LoadHeader
  <2> QED BY <1>f, <2>1, <2>2, <2>3
<1>4. ASSUME LocateTable PROVE FlowInv'
  BY <1>4 DEF LocateTable, GetTable
<1>5. ASSUME LoadData PROVE FlowInv'
  <2>1. mode = "block" /\ UNCHANGED mode /\ pc = "data"
    BY <1>5 DEF LoadData
  <2>2. (\E r : FailLoad(r)) \/ (pc' \in {"finish", pc} /\ UNCHANGED <<store, table>>)
    BY <1>5, Zenon DEF LoadData
  <2> QED BY <1>f, <2>1, <2>2
<1>6. ASSUME LocateLate PROVE FlowInv'
  BY <1>6 DEF LocateLate, GetTable
<1>7. ASSUME FinishLoad PROVE FlowInv'
  BY <1>7 DEF FinishLoad
<1>8. ASSUME LoadReturned PROVE FlowInv'
  BY <1>8 DEF LoadReturned, parse
<1>9. ASSUME NoblockOpen PROVE FlowInv'
  BY <1>9 DEF NoblockOpen
<1>10. ASSUME NoblockCall PROVE FlowInv'
  <2>1. mode = "noblock" /\ UNCHANGED <<mode, store, table>>
    BY <1>10 DEF NoblockCall
  <2>2. pc' \in {"start", "cleanup", "nb_store"}
    BY <1>10 DEF NoblockCall, NoblockTable, NoblockFail
  <2> QED BY <2>1, <2>2
<1>11. ASSUME NoblockRefused PROVE FlowInv'
  BY <1>11 DEF NoblockRefused, parse
<1>12. ASSUME NoblockStore PROVE FlowInv'
  <2>1. mode = "noblock" /\ UNCHANGED <<mode, store, table>> /\ pc' \in {"nb_call", "cleanup", "remove"}
    BY <1>12 DEF NoblockStore
  <2> QED BY <2>1
<1>13. ASSUME Start PROVE FlowInv'
  BY <1>13 DEF Start, parse
<1>14. ASSUME Stop PROVE FlowInv'
  BY <1>14 DEF Stop, parse
<1>15. ASSUME Shutdown PROVE FlowInv'
  BY <1>15 DEF Shutdown, parse
<1>16. ASSUME Remove PROVE FlowInv'
  BY <1>16 DEF Remove, parse
<1>17. CASE UNCHANGED vars
  BY <1>17 DEF vars, parse
<1> QED BY <1>1, <1>2, <1>3, <1>4, <1>5, <1>6, <1>7, <1>8, <1>9, <1>10, <1>11, <1>12, <1>13,
           <1>14, <1>15, <1>16, <1>17 DEF Next, Step, Ended

(***************************************************************************)
(* The inductive invariant: what has been parsed, and what is mapped.      *)
(***************************************************************************)
Section == [da : Nat, offset : Nat, size : Nat]

\* The caller of the non-blocking function has a segment at hand, or is asked
\* for one, only after the program headers are there.
SegmentAt(off, n) ==
    /\ info # NoInfo /\ info.state.ldr # "not_ready"
    /\ Loads(image) => SegmentData(image, off, n)

ParseInv ==
    /\ image \in Images /\ chunk \in Chunk
    /\ rsc \in Section /\ (rsc.size = 0 \/ rsc = image.rsc)
    /\ info = NoInfo \/ SoundInfo(info)
    /\ pc \in {"header", "nb_call", "nb_store"} => next \in Request
    /\ pc = "header" => Parsed(last, info) /\ chunk.at = chunk.offset
    /\ pc \in {"locate", "data"} =>
         SoundInfo(info) /\ last = info.state /\ last.ldr # "not_ready"
    /\ pc = "data" => chunk.at = chunk.offset \/ (chunk.offset = 0 /\ chunk.len = 0)
    /\ pc = "nb_call" => chunk.at = chunk.offset \/ SegmentAt(chunk.offset, chunk.len)
    /\ pc = "nb_store" =>
         \/ next.da = ANY
         \/ /\ SegmentAt(next.noffset, next.nlen)
            /\ Holding(rproc.mems, next.da, next.nmemsize)
            /\ ImagesFit => Fits(next.da, next.nmemsize) /\ next.nlen <= next.nmemsize

MemInv ==
    /\ rproc \in Rproc /\ DOMAIN tmem = Cells
    /\ ImagesFit => MemsPowered(rproc.mems, nodes) /\ Powered(tmem, nodes)

\* At the start there is nothing.
LEMMA LoadInit == Init => ParseInv /\ MemInv
<1> SUFFICES ASSUME Init PROVE ParseInv /\ MemInv
  OBVIOUS
<1>1. MemInv
  <2>1. rproc \in Rproc /\ rproc.mems = <<>>
    BY DEF Init, Rproc, RprocStates
  <2>2. DOMAIN tmem = Cells /\ \A p \in Cells : tmem[p] = Untouched
    BY DEF Init, Cells
  <2>3. Tcm \subseteq Cells
    BY ImageAssumption DEF Tcm, Cells
  <2> QED BY <2>1, <2>2, <2>3 DEF MemInv, MemsPowered, Powered
<1>2. ParseInv
  BY DEF Init, ParseInv, Chunk, Section, NoSection
<1> QED BY <1>1, <1>2

\* A step that maps and writes nothing.
LEMMA MemFrame ==
    ASSUME MemInv, rproc' \in Rproc, rproc'.mems = rproc.mems, UNCHANGED <<nodes, tmem>>
    PROVE  MemInv'
BY DEF MemInv

\* A step to a place in the program where nothing is parsed.
LEMMA ParseFrame ==
    ASSUME ParseInv, image' = image, chunk' \in Chunk,
           rsc' \in Section, rsc'.size = 0 \/ rsc' = image.rsc,
           info' = NoInfo \/ SoundInfo(info'),
           pc' \notin {"header", "locate", "data", "nb_call", "nb_store"}
    PROVE  ParseInv'
BY DEF ParseInv

\* The section that is found.
LEMMA LocateResult ==
    ASSUME ParseInv, NEW i
    PROVE  LET r == elf_locate_rsc_table(image, i, rsc).rsc
           IN  r \in Section /\ (r.size = 0 \/ r = image.rsc)
<1>1. image.rsc \in Section /\ rsc \in Section /\ (rsc.size = 0 \/ rsc = image.rsc)
  BY ImageAssumption DEF ParseInv, ElfImage, Section
<1>2. [rsc EXCEPT !.size = 0] \in Section /\ [rsc EXCEPT !.size = 0].size = 0
  BY <1>1 DEF Section
<1> QED BY <1>1, <1>2 DEF elf_locate_rsc_table

\* A region for the table, or for nothing, fits.
LEMMA SectionFits ==
    ASSUME ParseInv, ImagesFit, NEW r \in Section, r.size = 0 \/ r = image.rsc
    PROVE  Fits(r.da, r.size)
BY DEF ParseInv, ImagesFit, Fits, Section

\* The steps of the program around the two load functions.
LEMMA ProgramSteps ==
    ASSUME ParseInv, MemInv,
           \/ Configure \/ LoadReturned \/ NoblockRefused \/ Start \/ Stop \/ Shutdown \/ Remove
    PROVE  ParseInv' /\ MemInv'
<1>0. rproc.state \in RprocStates /\ rproc \in Rproc
  BY DEF MemInv, Rproc
<1>p. ASSUME UNCHANGED <<image, chunk, rsc, info>>,
             pc' \notin {"header", "locate", "data", "nb_call", "nb_store"}
      PROVE  ParseInv'
  BY <1>p, ParseFrame DEF ParseInv
<1>m. ASSUME NEW st \in RprocStates, rproc' = [rproc EXCEPT !.state = st], UNCHANGED <<nodes, tmem>>
      PROVE  MemInv'
  <2>1. rproc' \in Rproc /\ rproc'.mems = rproc.mems
    BY <1>0, <1>m DEF Rproc
  <2> QED BY <1>m, <2>1, MemFrame
<1>1. CASE Configure
  <2>1. remoteproc_config(rproc.state, Ok).state \in RprocStates
    BY <1>0 DEF remoteproc_config, Result, RprocStates
  <2>2. /\ rproc' = [rproc EXCEPT !.state = remoteproc_config(rproc.state, Ok).state]
        /\ UNCHANGED <<image, chunk, rsc, info, nodes, tmem>> /\ pc' \in {"load", "nb_open"}
    BY <1>1 DEF Configure, input, target, parse
  <2> QED BY <1>m, <1>p, <2>1, <2>2
<1>2. CASE LoadReturned \/ NoblockRefused \/ Remove
  <2>1. /\ UNCHANGED <<image, chunk, rsc, info, nodes, tmem, rproc>>
        /\ pc' \in {"start", "cleanup", "config", "exit"}
    BY <1>2 DEF LoadReturned, NoblockRefused, Remove, input, target, parse
  <2> QED BY <1>0, <1>p, <2>1, MemFrame
<1>3. CASE Start
  <2>1. \A r : remoteproc_start(rproc.state, r).state \in RprocStates
    BY <1>0 DEF remoteproc_start, Result, RprocStates
  <2>2. \E r : rproc' = [rproc EXCEPT !.state = remoteproc_start(rproc.state, r).state]
    BY <1>3, Zenon DEF Start
  <2>3. UNCHANGED <<image, chunk, rsc, info, nodes, tmem>> /\ pc' \in {"stop", "cleanup"}
    BY <1>3 DEF Start, input, parse
  <2> QED BY <1>m, <1>p, <2>1, <2>2, <2>3
<1>4. CASE Stop
  <2>1. remoteproc_stop(rproc.state, Ok).state \in RprocStates
    BY <1>0 DEF remoteproc_stop, Result, RprocStates
  <2>2. /\ rproc' = [rproc EXCEPT !.state = remoteproc_stop(rproc.state, Ok).state]
        /\ UNCHANGED <<image, chunk, rsc, info, nodes, tmem>> /\ pc' = "shutdown"
    BY <1>4 DEF Stop, input, target, parse
  <2> QED BY <1>m, <1>p, <2>1, <2>2
<1>5. CASE Shutdown
  <2>1. \A r : remoteproc_shutdown(rproc.state, Ok, r).state \in RprocStates
    BY <1>0 DEF remoteproc_shutdown, Result, RprocStates
  <2>2. UNCHANGED <<image, chunk, rsc, info, nodes>> /\ pc' \in {"exit", "config", "remove"}
    BY <1>5 DEF Shutdown, input, parse
  <2>3. PICK st \in RprocStates, M \in {<<>>, rproc.mems} :
          rproc' = [rproc EXCEPT !.state = st, !.mems = M]
    BY <1>5, <2>1, Zenon DEF Shutdown
  <2>4. tmem' \in {tmem, [p \in DOMAIN tmem |-> Untouched]}
    BY <1>5, Zenon DEF Shutdown
  <2>5. rproc' \in Rproc /\ rproc'.mems \in {<<>>, rproc.mems}
    <3>1. rproc.mems \in Seq(Mem) /\ <<>> \in Seq(Mem)
      BY <1>0 DEF Rproc
    <3>2. M \in Seq(Mem)
      BY <3>1
    <3>3. rproc' \in Rproc /\ rproc'.mems = M
      BY <1>0, <2>3, <3>2 DEF Rproc
    <3> QED BY <3>3
  <2>6. DOMAIN tmem' = Cells
    BY <2>4 DEF MemInv
  <2>7. Tcm \subseteq Cells
    BY ImageAssumption DEF Tcm, Cells
  <2>8. ImagesFit => MemsPowered(rproc'.mems, nodes')
    BY <2>2, <2>5 DEF MemInv, MemsPowered
  <2>9. ImagesFit => Powered(tmem', nodes')
    BY <2>2, <2>4, <2>7 DEF MemInv, Powered
  <2>10. MemInv'
    BY <2>5, <2>6, <2>8, <2>9 DEF MemInv
  <2> QED BY <1>p, <2>2, <2>10
<1> QED BY <1>1, <1>2, <1>3, <1>4, <1>5

\* The image is opened.
LEMMA OpenSteps ==
    ASSUME ParseInv, MemInv, OpenImage \/ NoblockOpen
    PROVE  ParseInv' /\ MemInv'
<1>0. rproc \in Rproc
  BY DEF MemInv
<1>1. \A len \in OpenLen(image) : [at |-> 0, offset |-> 0, len |-> len] \in Chunk
  BY ImageAssumption DEF ParseInv, Chunk
<1>2. /\ UNCHANGED <<image, nodes, tmem>> /\ rproc' \in {rproc, [rproc EXCEPT !.loader = TRUE]}
      /\ info' = NoInfo /\ next' = Nothing /\ rsc' \in {rsc, NoSection}
  BY DEF OpenImage, NoblockOpen, input, target
<1>3. Nothing \in Request /\ NoSection \in Section /\ NoSection.size = 0
  BY DEF Nothing, Request, NoSection, Section
<1>4. MemInv'
  <2>1. rproc' \in Rproc /\ rproc'.mems = rproc.mems
    BY <1>0, <1>2 DEF Rproc
  <2> QED BY <1>2, <2>1, MemFrame
<1>5. rsc' \in Section /\ (rsc'.size = 0 \/ rsc' = image.rsc)
  BY <1>2, <1>3 DEF ParseInv
<1>6. CASE OpenImage
  <2>1. last' = InitState /\ pc' \in {"load_ret", "header"} /\ chunk' \in Chunk
    BY <1>1, <1>6 DEF OpenImage, ParseInv
  <2>2. pc' = "header" => chunk'.at = 0 /\ chunk'.offset = 0
    BY <1>6 DEF OpenImage
  <2> QED BY <1>2, <1>3, <1>4, <1>5, <2>1, <2>2 DEF ParseInv, Parsed
<1>7. CASE NoblockOpen
  <2>1. pc' \in {"cleanup", "nb_call"} /\ chunk' \in Chunk
    BY <1>1, <1>7 DEF NoblockOpen, ParseInv
  <2>2. pc' = "nb_call" => chunk'.at = 0 /\ chunk'.offset = 0
    BY <1>7 DEF NoblockOpen
  <2> QED BY <1>2, <1>3, <1>4, <1>5, <2>1, <2>2 DEF ParseInv
<1> QED BY <1>6, <1>7

\* Neither an empty chunk nor a segment is taken for section headers.
LEMMA ApartBytes ==
    ASSUME NEW img \in Images, NEW ch \in Chunk,
           \/ ch.offset = 0 /\ ch.len = 0
           \/ Loads(img) => SegmentData(img, ch.offset, ch.len)
    PROVE  NotSections(img, ch)
<1> SUFFICES ASSUME SectionsApart
             PROVE  /\ img.shnum # 0 => ~Holds(ch, img.shoff, img.shnum)
                    /\ ~Holds(ch, img.str.offset, img.str.size)
  BY DEF NotSections
<1>1. /\ img.shoff \in Nat /\ img.shnum \in Nat /\ img.str.offset \in Nat /\ img.str.size \in Nat
      /\ img.str.offset > 0 /\ Loads(img)
  BY ImageAssumption DEF ElfImage, SectionsApart
<1>2. CASE ch.offset = 0 /\ ch.len = 0
  BY <1>1, <1>2 DEF Holds
<1>3. CASE SegmentData(img, ch.offset, ch.len)
  <2>1. PICK k \in DOMAIN img.segs :
          img.segs[k].load /\ ch.offset = img.segs[k].offset /\ ch.len = img.segs[k].filesz
    BY <1>3 DEF SegmentData
  <2> DEFINE data == [offset |-> img.segs[k].offset, len |-> img.segs[k].filesz]
  <2>2. /\ img.shnum # 0 => ~Holds(data, img.shoff, img.shnum)
        /\ ~Holds(data, img.str.offset, img.str.size)
    BY <2>1 DEF SectionsApart
  <2> QED BY <2>1, <2>2 DEF Holds
<1> QED BY <1>1, <1>2, <1>3

\* One turn of the loop over the headers.
LEMMA HeaderStep ==
    ASSUME ParseInv, MemInv, LoadHeader
    PROVE  ParseInv' /\ MemInv'
<1>0. /\ image \in Images /\ image \in ElfImage /\ chunk \in Chunk /\ chunk.at = chunk.offset
      /\ pc = "header" /\ Parsed(last, info) /\ next \in Request
      /\ rsc \in Section /\ (rsc.size = 0 \/ rsc = image.rsc)
  BY ImageAssumption DEF LoadHeader, ParseInv
<1>1. UNCHANGED <<image, rproc, nodes, tmem, rsc>>
  BY DEF LoadHeader, input, target
<1>2. MemInv'
  BY <1>1, MemFrame DEF MemInv
<1>3. \E f : LET h == elf_load_header(image, info, last, chunk, next, f)
             IN  /\ last' = h.ret
                 /\ next' = [next EXCEPT !.noffset = h.noffset, !.nlen = h.nlen]
                 /\ \/ \E r : FailLoad(r) /\ UNCHANGED chunk
                    \/ /\ h.ret # Failed /\ h.ret.ldr = "ready_to_load"
                       /\ pc' = "locate" /\ info' = h.info /\ UNCHANGED chunk
                    \/ /\ h.ret # Failed
                       /\ chunk' = [at |-> h.noffset, offset |-> h.noffset, len |-> h.nlen]
                       /\ info' = h.info /\ UNCHANGED pc
  BY Zenon DEF LoadHeader
<1>4. PICK f : LET h == elf_load_header(image, info, last, chunk, next, f)
             IN  /\ last' = h.ret
                 /\ next' = [next EXCEPT !.noffset = h.noffset, !.nlen = h.nlen]
                 /\ \/ \E r : FailLoad(r) /\ UNCHANGED chunk
                    \/ /\ h.ret # Failed /\ h.ret.ldr = "ready_to_load"
                       /\ pc' = "locate" /\ info' = h.info /\ UNCHANGED chunk
                    \/ /\ h.ret # Failed
                       /\ chunk' = [at |-> h.noffset, offset |-> h.noffset, len |-> h.nlen]
                       /\ info' = h.info /\ UNCHANGED pc
  BY <1>3, Zenon
<1> DEFINE h == elf_load_header(image, info, last, chunk, next, f)
<1>5. next.noffset \in Nat /\ next.nlen \in Nat
  BY <1>0 DEF Request
<1>6. HeaderOk(h, last, info)
  BY <1>0, <1>5, HeaderCall
<1> HIDE DEF h
<1>7. CASE \E r : FailLoad(r) /\ UNCHANGED chunk
  <2>1. pc' \in {"crash", "load_ret"} /\ info' = NoInfo /\ chunk' = chunk
    BY <1>7 DEF FailLoad
  <2> QED BY <1>0, <1>1, <1>2, <2>1, ParseFrame
<1>8. CASE /\ h.ret # Failed /\ h.ret.ldr = "ready_to_load"
           /\ pc' = "locate" /\ info' = h.info /\ UNCHANGED chunk
  <2>1. Parsed(h.ret, h.info) /\ h.ret # InitState
    BY <1>6, <1>8 DEF HeaderOk, InitState
  <2>2. SoundInfo(info') /\ last' = info'.state /\ last'.ldr = "ready_to_load"
    BY <1>4, <1>8, <2>1 DEF Parsed, h
  <2> QED BY <1>0, <1>1, <1>2, <1>8, <2>2 DEF ParseInv
<1>9. CASE /\ h.ret # Failed
           /\ chunk' = [at |-> h.noffset, offset |-> h.noffset, len |-> h.nlen]
           /\ info' = h.info /\ UNCHANGED pc
  <2>1. Parsed(h.ret, h.info) /\ h.noffset \in Nat /\ h.nlen \in Nat
    BY <1>6, <1>9 DEF HeaderOk
  <2>2. last' = h.ret /\ next' = [next EXCEPT !.noffset = h.noffset, !.nlen = h.nlen]
    BY <1>4 DEF h
  <2>3. next' \in Request
    BY <1>0, <2>1, <2>2 DEF Request
  <2>4. chunk' \in Chunk /\ chunk'.at = chunk'.offset
    BY <1>9, <2>1 DEF Chunk
  <2>5. info' = NoInfo \/ SoundInfo(info')
    BY <1>9, <2>1 DEF Parsed
  <2> QED BY <1>0, <1>1, <1>2, <1>9, <2>1, <2>2, <2>3, <2>4, <2>5 DEF ParseInv
<1> QED BY <1>4, <1>7, <1>8, <1>9 DEF h

\* The table is looked for.
LEMMA LocateSteps ==
    ASSUME ParseInv, MemInv, LocateTable \/ LocateLate
    PROVE  ParseInv' /\ MemInv'
<1>1. UNCHANGED <<image, rproc, nodes, tmem, info, last>>
  BY DEF LocateTable, LocateLate, input, target
<1>2. MemInv'
  BY <1>1, MemFrame DEF MemInv
<1>3. \A f : GetTable(f) => rsc' \in Section /\ (rsc'.size = 0 \/ rsc' = image.rsc)
  BY LocateResult DEF GetTable
<1>4. rsc' \in Section /\ (rsc'.size = 0 \/ rsc' = image.rsc)
  BY <1>3 DEF LocateTable, LocateLate, ParseInv
<1>5. CASE LocateTable
  <2>1. pc = "locate" /\ pc' = "data" /\ chunk' = [chunk EXCEPT !.offset = 0, !.len = 0]
    BY <1>5 DEF LocateTable
  <2>2. chunk' \in Chunk /\ chunk'.offset = 0 /\ chunk'.len = 0
    BY <2>1 DEF ParseInv, Chunk
  <2> QED BY <1>1, <1>2, <1>4, <2>1, <2>2 DEF ParseInv
<1>6. CASE LocateLate
  <2>1. pc' = "update" /\ chunk' = chunk
    BY <1>6 DEF LocateLate
  <2> QED BY <1>1, <1>2, <1>4, <2>1 DEF ParseInv
<1> QED BY <1>5, <1>6

\* The end of remoteproc_load.
LEMMA FinishStep ==
    ASSUME ParseInv, MemInv, FlowInv, FinishLoad
    PROVE  ParseInv' /\ MemInv'
<1>0. /\ image \in ElfImage /\ rsc \in Section /\ (rsc.size = 0 \/ rsc = image.rsc)
      /\ rproc \in Rproc /\ rproc.mems \in Seq(Mem) /\ rsc.da \in Nat /\ rsc.size \in Nat
  BY ImageAssumption DEF ParseInv, MemInv, Rproc, Section
<1>1. UNCHANGED <<image, chunk, rsc>> /\ pc' \in {"crash", "load_ret"} /\ info' = NoInfo
  BY DEF FinishLoad, input
<1>2. ParseInv'
  BY <1>0, <1>1, ParseFrame DEF ParseInv
<1>3. PICK f : LET pa == MapPa(rsc.da, rsc.size, f)
                   mapped == table # "none" /\ pa # ANY
               IN  /\ nodes' = IF table # "none" THEN MapNodes(rsc.da, rsc.size) ELSE nodes
                   /\ tmem' = IF mapped /\ table = "live" THEN TableAt(tmem, pa, rsc) ELSE tmem
                   /\ rproc' = [rproc EXCEPT
                        !.mems = IF table # "none" THEN MapMems(rsc.da, rsc.size, f) ELSE @,
                        !.rsc_table = IF mapped THEN table ELSE @,
                        !.bootaddr = elf_get_entry(image, info), !.state = "READY"]
  BY Zenon DEF FinishLoad
<1> DEFINE pa == MapPa(rsc.da, rsc.size, f)
           M == MapMems(rsc.da, rsc.size, f)
           N == MapNodes(rsc.da, rsc.size)
<1>4. /\ M \in Seq(Mem) /\ nodes \subseteq N
      /\ pa # ANY => pa \in Nat
      /\ ImagesFit => MemsPowered(M, N) /\ (pa # ANY => RangePowered(pa, rsc.size, N))
  <2>1. ImagesFit => Fits(rsc.da, rsc.size) /\ MemsPowered(rproc.mems, nodes)
    BY <1>0, SectionFits DEF MemInv
  <2> QED BY <1>0, <2>1, MapResult
<1> HIDE DEF pa, M, N
<1>5. elf_get_entry(image, info) \in Nat \cup {ANY}
  BY <1>0 DEF elf_get_entry, ElfImage
<1>6. rproc' \in Rproc /\ rproc'.mems = IF table # "none" THEN M ELSE rproc.mems
  <2> DEFINE mm == IF table # "none" THEN M ELSE rproc.mems
             tt == IF table # "none" /\ pa # ANY THEN table ELSE rproc.rsc_table
  <2>1. rproc' = [rproc EXCEPT !.mems = mm, !.rsc_table = tt,
                               !.bootaddr = elf_get_entry(image, info), !.state = "READY"]
    BY <1>3 DEF pa, M
  <2>2. mm \in Seq(Mem) /\ tt \in {"none", "live", "errptr"}
    BY <1>0, <1>4 DEF Rproc, FlowInv
  <2> HIDE DEF mm, tt
  <2>3. rproc' \in Rproc /\ rproc'.mems = mm
    BY <1>0, <1>5, <2>1, <2>2 DEF Rproc, RprocStates
  <2> QED BY <2>3 DEF mm
<1>7. /\ nodes' = IF table # "none" THEN N ELSE nodes
      /\ tmem' = IF table # "none" /\ pa # ANY /\ table = "live" THEN TableAt(tmem, pa, rsc) ELSE tmem
  BY <1>3 DEF pa, N
<1>8. ImagesFit => MemsPowered(rproc'.mems, nodes')
  BY <1>4, <1>6, <1>7 DEF MemInv
<1>9. nodes \subseteq nodes'
  BY <1>4, <1>7
<1>10. CASE tmem' = tmem
  <2>1. ImagesFit => Powered(tmem', nodes')
    BY <1>9, <1>10 DEF MemInv, Powered
  <2>2. MemInv'
    BY <1>6, <1>8, <1>10, <2>1 DEF MemInv
  <2> QED BY <1>2, <2>2
<1>11. CASE table = "live" /\ pa # ANY /\ tmem' = TableAt(tmem, pa, rsc) /\ nodes' = N
  <2>1. DOMAIN tmem' = Cells /\ (ImagesFit => Powered(tmem', nodes'))
    BY <1>0, <1>4, <1>11, TableResult DEF MemInv
  <2>2. MemInv'
    BY <1>6, <1>8, <2>1 DEF MemInv
  <2> QED BY <1>2, <2>2
<1> QED BY <1>7, <1>10, <1>11

\* The larger of a number and zero.
LEMMA MaxZero ==
    ASSUME NEW r \in Int, NEW n \in Nat, r <= n PROVE Max({r, 0}) \in Nat /\ Max({r, 0}) <= n
<1>1. \E x \in {r, 0} : \A y \in {r, 0} : x >= y
  OBVIOUS
<1>2. Max({r, 0}) \in {r, 0} /\ \A y \in {r, 0} : Max({r, 0}) >= y
  BY <1>1 DEF Max
<1> QED BY <1>2

\* One turn of the loop over the data: whatever is mapped gets power, and only
\* what was mapped is written.
LEMMA DataStep ==
    ASSUME ParseInv, MemInv, LoadData
    PROVE  ParseInv' /\ MemInv'
<1>0. /\ image \in Images /\ chunk \in Chunk /\ pc = "data"
      /\ SoundInfo(info) /\ last = info.state /\ last.ldr # "not_ready"
      /\ rsc \in Section /\ (rsc.size = 0 \/ rsc = image.rsc)
      /\ rproc \in Rproc /\ rproc.mems \in Seq(Mem) /\ DOMAIN tmem = Cells
  BY DEF LoadData, ParseInv, MemInv, Rproc
<1>1. UNCHANGED <<image, rsc>>
  BY DEF LoadData, input
<1>2. chunk.at = chunk.offset \/ NotSections(image, chunk)
  BY <1>0, ApartBytes DEF ParseInv
<1>3. /\ Nothing.da = ANY /\ Nothing.noffset = 0 /\ Nothing.nlen = 0 /\ Nothing.nmemsize = 0
  BY DEF Nothing
<1>4. PICK f : LET d == elf_load(image, info, last, chunk, Nothing, f)
                   pa == MapPa(d.da, d.nmemsize, f)
               IN /\ last' = d.ret
                  /\ \/ /\ \E r : FailLoad(r) /\ UNCHANGED <<rproc, nodes, tmem, chunk>>
                     \/ /\ d.ret # Failed /\ d.da # ANY
                        /\ nodes' = MapNodes(d.da, d.nmemsize)
                        /\ rproc' = [rproc EXCEPT !.mems = MapMems(d.da, d.nmemsize, f)]
                        /\ UNCHANGED chunk
                        /\ \/ (\E r : FailLoad(r)) /\ UNCHANGED tmem
                           \/ /\ pa # ANY /\ f = "load" /\ (\E r : FailLoad(r))
                              /\ \E r \in Delivered(d.nlen, f) :
                                   tmem' = Written(tmem, pa, d.noffset, Max({r, 0}), Max({r, 0}))
                           \/ /\ pa # ANY
                              /\ tmem' = Written(tmem, pa, d.noffset, d.nlen, d.nmemsize)
                              /\ info' = d.info /\ UNCHANGED pc
                     \/ /\ d.ret # Failed /\ UNCHANGED <<rproc, nodes, tmem>>
                        /\ \/ (\E r : FailLoad(r)) /\ UNCHANGED chunk
                           \/ pc' = "finish" /\ info' = d.info /\ UNCHANGED chunk
                           \/ /\ chunk' = [at |-> d.noffset, offset |-> d.noffset, len |-> d.nlen]
                              /\ info' = d.info /\ UNCHANGED pc
  BY Zenon DEF LoadData
<1> DEFINE d == elf_load(image, info, last, chunk, Nothing, f)
           pa == MapPa(d.da, d.nmemsize, f)
           M == MapMems(d.da, d.nmemsize, f)
           N == MapNodes(d.da, d.nmemsize)
<1>5. LoadOk(d, image)
  BY <1>0, <1>2, <1>3, LoadCall
<1>6. ASSUME d.ret # Failed, d.da # ANY
      PROVE  /\ M \in Seq(Mem) /\ nodes \subseteq N
             /\ pa # ANY => pa \in Nat
             /\ ImagesFit => MemsPowered(M, N) /\ (pa # ANY => RangePowered(pa, d.nmemsize, N))
  <2>1. d.da \in Nat /\ d.nmemsize \in Nat
    BY <1>5, <1>6 DEF LoadOk
  <2>2. ImagesFit => Fits(d.da, d.nmemsize) /\ MemsPowered(rproc.mems, nodes)
    BY <1>5, <1>6 DEF LoadOk, MemInv
  <2> HIDE DEF d
  <2> QED BY <1>0, <2>1, <2>2, MapResult
<1> HIDE DEF d
<1>7. ASSUME NEW r, FailLoad(r), UNCHANGED chunk PROVE ParseInv'
  <2>1. pc' \in {"crash", "load_ret"} /\ info' = NoInfo /\ chunk' = chunk
    BY <1>7 DEF FailLoad
  <2> QED BY <1>0, <1>1, <2>1, ParseFrame
<1>8. CASE \E r : FailLoad(r) /\ UNCHANGED <<rproc, nodes, tmem, chunk>>
  BY <1>0, <1>7, <1>8, MemFrame
<1>9. CASE /\ d.ret # Failed /\ d.da # ANY
           /\ nodes' = N /\ rproc' = [rproc EXCEPT !.mems = M] /\ UNCHANGED chunk
           /\ \/ (\E r : FailLoad(r)) /\ UNCHANGED tmem
              \/ /\ pa # ANY /\ f = "load" /\ (\E r : FailLoad(r))
                 /\ \E r \in Delivered(d.nlen, f) :
                      tmem' = Written(tmem, pa, d.noffset, Max({r, 0}), Max({r, 0}))
              \/ /\ pa # ANY
                 /\ tmem' = Written(tmem, pa, d.noffset, d.nlen, d.nmemsize)
                 /\ info' = d.info /\ UNCHANGED pc
  <2> HIDE DEF pa, M, N
  <2>1. rproc' \in Rproc /\ rproc'.mems = M
    BY <1>0, <1>6, <1>9 DEF Rproc
  <2>2. ImagesFit => MemsPowered(rproc'.mems, nodes')
    BY <1>6, <1>9, <2>1
  <2>3. /\ d.nlen \in Nat /\ d.nmemsize \in Nat /\ d.noffset \in Nat
        /\ ImagesFit => d.nlen <= d.nmemsize
    BY <1>5, <1>9 DEF LoadOk
  <2>4. ASSUME NEW n \in Nat, NEW size \in Nat, pa # ANY,
               ImagesFit => n <= d.nmemsize /\ size <= d.nmemsize,
               tmem' = Written(tmem, pa, d.noffset, n, size)
        PROVE  MemInv'
    <3>1. DOMAIN tmem' = Cells
      BY <1>0, <2>4 DEF Written
    <3>2. pa \in Nat
      BY <1>6, <1>9, <2>4
    <3>3. ImagesFit => Powered(tmem', nodes')
      BY <1>0, <1>6, <1>9, <2>3, <2>4, <3>2, WriteResult DEF MemInv
    <3> QED BY <2>1, <2>2, <3>1, <3>3 DEF MemInv
  <2>5. CASE (\E r : FailLoad(r)) /\ UNCHANGED tmem
    <3>1. ImagesFit => Powered(tmem', nodes')
      BY <1>6, <1>9, <2>5 DEF MemInv, Powered
    <3>2. MemInv'
      BY <1>0, <2>1, <2>2, <2>5, <3>1 DEF MemInv
    <3> QED BY <1>7, <1>9, <2>5, <3>2
  <2>6. CASE /\ pa # ANY /\ f = "load" /\ (\E r : FailLoad(r))
             /\ \E r \in Delivered(d.nlen, f) :
                  tmem' = Written(tmem, pa, d.noffset, Max({r, 0}), Max({r, 0}))
    <3>1. PICK r \in Delivered(d.nlen, f) :
            tmem' = Written(tmem, pa, d.noffset, Max({r, 0}), Max({r, 0}))
      BY <2>6
    <3>2. r \in Int /\ r <= d.nlen
      BY <2>3 DEF Delivered
    <3>3. Max({r, 0}) \in Nat /\ Max({r, 0}) <= d.nlen
      BY <2>3, <3>2, MaxZero
    <3>4. MemInv'
      BY <2>3, <2>4, <2>6, <3>1, <3>3
    <3> QED BY <1>7, <1>9, <2>6, <3>4
  <2>7. CASE /\ pa # ANY /\ tmem' = Written(tmem, pa, d.noffset, d.nlen, d.nmemsize)
             /\ info' = d.info /\ UNCHANGED pc
    <3>1. MemInv'
      BY <2>3, <2>4, <2>7
    <3>2. SoundInfo(info') /\ last' = info'.state /\ last'.ldr # "not_ready"
      BY <1>4, <1>5, <1>9, <2>7 DEF LoadOk, d
    <3>3. ParseInv'
      BY <1>0, <1>1, <1>9, <2>7, <3>2 DEF ParseInv
    <3> QED BY <3>1, <3>3
  <2> QED BY <1>9, <2>5, <2>6, <2>7
<1>10. CASE /\ d.ret # Failed /\ UNCHANGED <<rproc, nodes, tmem>>
            /\ \/ (\E r : FailLoad(r)) /\ UNCHANGED chunk
               \/ pc' = "finish" /\ info' = d.info /\ UNCHANGED chunk
               \/ /\ chunk' = [at |-> d.noffset, offset |-> d.noffset, len |-> d.nlen]
                  /\ info' = d.info /\ UNCHANGED pc
  <2>1. MemInv'
    BY <1>0, <1>10, MemFrame
  <2>2. SoundInfo(d.info) /\ d.ret = d.info.state /\ d.ret.ldr # "not_ready"
        /\ d.noffset \in Nat /\ d.nlen \in Nat
    BY <1>5, <1>10 DEF LoadOk
  <2>3. CASE (\E r : FailLoad(r)) /\ UNCHANGED chunk
    BY <1>7, <2>1, <2>3
  <2>4. CASE pc' = "finish" /\ info' = d.info /\ UNCHANGED chunk
    BY <1>0, <1>1, <2>1, <2>2, <2>4, ParseFrame
  <2>5. CASE /\ chunk' = [at |-> d.noffset, offset |-> d.noffset, len |-> d.nlen]
             /\ info' = d.info /\ UNCHANGED pc
    <3>1. chunk' \in Chunk /\ chunk'.at = chunk'.offset
      BY <2>2, <2>5 DEF Chunk
    <3>2. last' = d.ret
      BY <1>4 DEF d
    <3>3. ParseInv'
      BY <1>0, <1>1, <2>2, <2>5, <3>1, <3>2 DEF ParseInv
    <3> QED BY <2>1, <3>3
  <2> QED BY <1>10, <2>3, <2>4, <2>5
<1>11. \/ \E r : FailLoad(r) /\ UNCHANGED <<rproc, nodes, tmem, chunk>>
       \/ /\ d.ret # Failed /\ d.da # ANY
          /\ nodes' = N /\ rproc' = [rproc EXCEPT !.mems = M] /\ UNCHANGED chunk
          /\ \/ (\E r : FailLoad(r)) /\ UNCHANGED tmem
             \/ /\ pa # ANY /\ f = "load" /\ (\E r : FailLoad(r))
                /\ \E r \in Delivered(d.nlen, f) :
                     tmem' = Written(tmem, pa, d.noffset, Max({r, 0}), Max({r, 0}))
             \/ /\ pa # ANY
                /\ tmem' = Written(tmem, pa, d.noffset, d.nlen, d.nmemsize)
                /\ info' = d.info /\ UNCHANGED pc
       \/ /\ d.ret # Failed /\ UNCHANGED <<rproc, nodes, tmem>>
          /\ \/ (\E r : FailLoad(r)) /\ UNCHANGED chunk
             \/ pc' = "finish" /\ info' = d.info /\ UNCHANGED chunk
             \/ /\ chunk' = [at |-> d.noffset, offset |-> d.noffset, len |-> d.nlen]
                /\ info' = d.info /\ UNCHANGED pc
  BY <1>4, Zenon DEF d
<1> QED BY <1>8, <1>9, <1>10, <1>11, Zenon

\* What a call of the non-blocking function asks for next.
AskOk(d) ==
    d.ret # Failed =>
      /\ Parsed(d.ret, d.info)
      /\ d.da \in Nat \cup {ANY} /\ d.noffset \in Nat /\ d.nlen \in Nat /\ d.nmemsize \in Nat
      /\ d.da # ANY => SoundInfo(d.info) /\ d.info.state.ldr # "not_ready"
      /\ ImagesFit /\ d.da # ANY => Fits(d.da, d.nmemsize) /\ d.nlen <= d.nmemsize
      /\ Loads(image) /\ d.da # ANY /\ d.nlen # 0 => SegmentData(image, d.noffset, d.nlen)

\* The two parts of a call.
LEMMA AskResult ==
    ASSUME ParseInv, pc = "nb_call", NEW f
    PROVE  AskOk(NoblockSegment(f))
<1> DEFINE st == IF info = NoInfo THEN InitState ELSE info.state
           out == [next EXCEPT !.da = ANY, !.nlen = 0, !.nmemsize = 0]
           h == NoblockHeaders(f)
           data == /\ h.ret # Failed
                   /\ h.nlen = 0 \/ h.ret.ldr = "ready_to_load"
                   /\ h.ret.ldr \in {"ready_to_load", "post_data_load"}
           hout == [da |-> ANY, noffset |-> h.noffset, nlen |-> h.nlen, nmemsize |-> 0]
<1>0. /\ image \in Images /\ image \in ElfImage /\ chunk \in Chunk /\ next \in Request
      /\ info = NoInfo \/ SoundInfo(info)
  BY ImageAssumption DEF ParseInv
<1>1. out.noffset \in Nat /\ out.nlen = 0
  BY <1>0 DEF Request
<1>2. Parsed(st, info)
  BY <1>0 DEF Parsed
<1>3. /\ chunk.at = chunk.offset \/ NotSections(image, chunk)
      /\ chunk.at = chunk.offset \/ (st # InitState /\ RightBytes(image, info, chunk))
  <2>1. CASE chunk.at = chunk.offset
    BY <2>1
  <2>2. CASE SegmentAt(chunk.offset, chunk.len)
    <3>1. NotSections(image, chunk)
      BY <1>0, <2>2, ApartBytes DEF SegmentAt
    <3>2. st = info.state /\ SoundInfo(info) /\ info.state.ldr # "not_ready"
      BY <1>0, <2>2 DEF SegmentAt
    <3>3. st # InitState /\ info.state.hdr # "phdrs"
      BY <3>2 DEF SoundInfo, SoundState, InitState
    <3> QED BY <3>1, <3>3 DEF RightBytes
  <2> QED BY <2>1, <2>2 DEF ParseInv
<1> HIDE DEF st, out
<1>4. h.ret # Failed =>
        /\ Parsed(h.ret, h.info) /\ h.noffset \in Nat /\ h.nlen \in Nat
        /\ h.ret.ldr = "ready_to_load" => h.nlen = 0 \/ h.ret.nseg = 0
  <2>1. CASE st.ldr \in {"ready_to_load", "load_complete"}
    <3>1. h = [ret |-> st, info |-> info, noffset |-> out.noffset, nlen |-> 0]
      BY <2>1 DEF NoblockHeaders, st, out
    <3>2. h.ret = st /\ h.info = info /\ h.noffset = out.noffset /\ h.nlen = 0
      BY <3>1
    <3> HIDE DEF h
    <3> QED BY <1>1, <1>2, <3>2
  <2>2. CASE st.ldr \notin {"ready_to_load", "load_complete"}
    <3>1. h = elf_load_header(image, info, st, chunk, out, f)
      BY <2>2 DEF NoblockHeaders, st, out
    <3>2. HeaderOk(h, st, info)
      BY <1>0, <1>1, <1>2, <1>3, <3>1, HeaderCall
    <3> HIDE DEF h
    <3>3. ASSUME h.ret # Failed, h.ret.ldr = "ready_to_load" PROVE h.ret.nseg = 0
      <4>1. h.ret # InitState
        BY <3>3 DEF InitState
      <4>2. st # InitState => st = info.state
        BY <1>2 DEF Parsed
      <4> QED BY <2>2, <3>2, <3>3, <4>1, <4>2 DEF HeaderOk, HeaderResult
    <3> QED BY <3>2, <3>3 DEF HeaderOk
  <2> QED BY <2>1, <2>2
<1>5. NoblockSegment(f) =
        IF data THEN elf_load(image, h.info, h.ret, chunk, hout, f)
        ELSE [ret |-> h.ret, info |-> h.info, da |-> ANY, noffset |-> h.noffset,
              nlen |-> h.nlen, nmemsize |-> 0]
  BY DEF NoblockSegment
<1>6. hout.da = ANY /\ hout.noffset = h.noffset /\ hout.nlen = h.nlen /\ hout.nmemsize = 0
  OBVIOUS
<1> HIDE DEF h, hout
<1>7. CASE data
  <2>1. h.ret # InitState
    BY <1>7 DEF InitState
  <2>2. SoundInfo(h.info) /\ h.ret = h.info.state
    BY <1>4, <1>7, <2>1 DEF Parsed
  <2>3. hout.nlen = 0 \/ h.info.state.nseg = 0
    BY <1>4, <1>6, <1>7, <2>2
  <2>4. h.info.state.ldr # "not_ready"
    BY <1>7, <2>2
  <2>5. LoadOk(elf_load(image, h.info, h.info.state, chunk, hout, f), image)
    BY <1>0, <1>3, <1>4, <1>6, <1>7, <2>2, <2>3, <2>4, LoadCall
  <2>6. LoadOk(NoblockSegment(f), image)
    BY <1>5, <1>7, <2>2, <2>5
  <2> QED BY <2>6 DEF LoadOk, AskOk, Parsed
<1>8. CASE ~data
  <2> DEFINE d == NoblockSegment(f)
  <2>1. d = [ret |-> h.ret, info |-> h.info, da |-> ANY, noffset |-> h.noffset,
             nlen |-> h.nlen, nmemsize |-> 0]
    BY <1>5, <1>8, Zenon
  <2>2. /\ d.ret = h.ret /\ d.info = h.info /\ d.da = ANY /\ d.noffset = h.noffset
        /\ d.nlen = h.nlen /\ d.nmemsize = 0
    BY <2>1
  <2> HIDE DEF d
  <2>3. AskOk(d)
    BY <1>4, <2>2 DEF AskOk
  <2> QED BY <2>3 DEF d
<1> QED BY <1>7, <1>8

\* One call.
LEMMA CallStep ==
    ASSUME ParseInv, MemInv, NoblockCall
    PROVE  ParseInv' /\ MemInv'
<1>0. /\ image \in Images /\ image \in ElfImage /\ chunk \in Chunk /\ pc = "nb_call"
      /\ rproc \in Rproc /\ rproc.mems \in Seq(Mem) /\ DOMAIN tmem = Cells
      /\ rsc \in Section /\ (rsc.size = 0 \/ rsc = image.rsc)
  BY ImageAssumption DEF NoblockCall, ParseInv, MemInv, Rproc
<1>1. UNCHANGED <<image, chunk>>
  BY DEF NoblockCall, input
<1>2. PICK f : LET d == NoblockSegment(f)
                   mapping == d.ret # Failed /\ d.da # ANY
               IN /\ next' = [da |-> d.da, noffset |-> d.noffset, nlen |-> d.nlen,
                              nmemsize |-> d.nmemsize]
                  /\ \/ d.ret # Failed /\ NoblockTable(d.info, f)
                     \/ /\ nodes' = IF mapping THEN MapNodes(d.da, d.nmemsize) ELSE nodes
                        /\ rproc' = [rproc EXCEPT !.mems =
                                       IF mapping THEN MapMems(d.da, d.nmemsize, f) ELSE @]
                        /\ UNCHANGED <<rsc, tmem>>
                        /\ \/ NoblockFail(Err)
                           \/ /\ d.ret # Failed /\ f # "map"
                              /\ info' = d.info
                              /\ pc' = IF d.nlen = 0 THEN "start" ELSE "nb_store"
  BY Zenon DEF NoblockCall
<1> DEFINE d == NoblockSegment(f)
           mapping == d.ret # Failed /\ d.da # ANY
<1>3. AskOk(d)
  BY <1>0, AskResult
<1>4. \/ d.ret # Failed /\ NoblockTable(d.info, f)
      \/ /\ nodes' = IF mapping THEN MapNodes(d.da, d.nmemsize) ELSE nodes
         /\ rproc' = [rproc EXCEPT !.mems =
                        IF mapping THEN MapMems(d.da, d.nmemsize, f) ELSE @]
         /\ UNCHANGED <<rsc, tmem>>
         /\ \/ NoblockFail(Err)
            \/ /\ d.ret # Failed /\ f # "map"
               /\ info' = d.info
               /\ pc' = IF d.nlen = 0 THEN "start" ELSE "nb_store"
  BY <1>2, Zenon
<1>5. next' = [da |-> d.da, noffset |-> d.noffset, nlen |-> d.nlen, nmemsize |-> d.nmemsize]
  BY <1>2, Zenon
<1> HIDE DEF d
<1>6. CASE d.ret # Failed /\ NoblockTable(d.info, f)
  <2> DEFINE loc == elf_locate_rsc_table(image, d.info, rsc)
             some == loc.ok /\ loc.rsc.size > 0
             pa == MapPa(loc.rsc.da, loc.rsc.size, f)
             M == MapMems(loc.rsc.da, loc.rsc.size, f)
             N == MapNodes(loc.rsc.da, loc.rsc.size)
  <2>1. loc.rsc \in Section /\ (loc.rsc.size = 0 \/ loc.rsc = image.rsc)
    BY LocateResult
  <2>2. /\ M \in Seq(Mem) /\ nodes \subseteq N
        /\ f # "map" => pa \in Nat
        /\ ImagesFit => MemsPowered(M, N) /\ (f # "map" => RangePowered(pa, loc.rsc.size, N))
    <3>1. loc.rsc.da \in Nat /\ loc.rsc.size \in Nat
      BY <2>1 DEF Section
    <3>2. ImagesFit => Fits(loc.rsc.da, loc.rsc.size) /\ MemsPowered(rproc.mems, nodes)
      BY <2>1, SectionFits DEF MemInv
    <3> HIDE DEF loc
    <3> QED BY <1>0, <3>1, <3>2, MapResult
  <2>3. /\ rsc' = loc.rsc
        /\ nodes' = IF some /\ f # "nomem" THEN N ELSE nodes
        /\ \/ /\ f = "none"
              /\ rproc' = [rproc EXCEPT !.mems = IF some THEN M ELSE @,
                                        !.rsc_table = IF some THEN "live" ELSE @,
                                        !.bootaddr = elf_get_entry(image, d.info)]
              /\ tmem' = IF some THEN TableAt(tmem, pa, loc.rsc) ELSE tmem
              /\ info' = d.info /\ pc' = "start"
           \/ /\ some
              /\ rproc' = [rproc EXCEPT !.mems = IF f = "parse" THEN M ELSE @]
              /\ info' = NoInfo /\ pc' \in {"start", "cleanup"} /\ UNCHANGED tmem
    BY <1>6, Zenon DEF NoblockTable, NoblockFail
  <2> HIDE DEF loc, some, pa, M, N
  <2>4. info' = NoInfo \/ SoundInfo(info')
    BY <1>3, <1>6, <2>3 DEF AskOk, Parsed
  <2>5. ParseInv'
    BY <1>0, <1>1, <2>1, <2>3, <2>4, ParseFrame
  <2>6. nodes \subseteq nodes' /\ (ImagesFit => MemsPowered(rproc.mems, nodes'))
    <3>1. nodes \subseteq nodes'
      BY <2>2, <2>3
    <3> QED BY <3>1 DEF MemInv, MemsPowered, RangePowered
  <2>7. CASE /\ f = "none"
             /\ rproc' = [rproc EXCEPT !.mems = IF some THEN M ELSE @,
                                       !.rsc_table = IF some THEN "live" ELSE @,
                                       !.bootaddr = elf_get_entry(image, d.info)]
             /\ tmem' = IF some THEN TableAt(tmem, pa, loc.rsc) ELSE tmem
    <3>1. elf_get_entry(image, d.info) \in Nat \cup {ANY}
      BY <1>0 DEF elf_get_entry, ElfImage
    <3>2. rproc' \in Rproc /\ rproc'.mems = IF some THEN M ELSE rproc.mems
      BY <1>0, <2>2, <2>7, <3>1 DEF Rproc
    <3>3. CASE some
      <4>1. nodes' = N /\ rproc'.mems = M /\ tmem' = TableAt(tmem, pa, loc.rsc)
        BY <2>3, <2>7, <3>2, <3>3
      <4>2. DOMAIN tmem' = Cells /\ (ImagesFit => Powered(tmem', nodes'))
        <5>1. loc.rsc.size \in Nat /\ pa \in Nat
          BY <2>1, <2>2, <2>7 DEF Section
        <5> QED BY <1>0, <2>2, <2>7, <4>1, <5>1, TableResult DEF MemInv
      <4>3. MemInv'
        BY <2>2, <3>2, <4>1, <4>2 DEF MemInv
      <4> QED BY <2>5, <4>3
    <3>4. CASE ~some
      <4>1. nodes' = nodes /\ rproc'.mems = rproc.mems /\ tmem' = tmem
        BY <2>3, <2>7, <3>2, <3>4
      <4> QED BY <2>5, <3>2, <4>1, MemFrame
    <3> QED BY <3>3, <3>4
  <2>8. CASE some /\ rproc' = [rproc EXCEPT !.mems = IF f = "parse" THEN M ELSE @] /\ UNCHANGED tmem
    <3>1. rproc' \in Rproc /\ rproc'.mems = IF f = "parse" THEN M ELSE rproc.mems
      BY <1>0, <2>2, <2>8 DEF Rproc
    <3>2. f = "parse" => nodes' = N
      BY <2>3, <2>8
    <3>3. ImagesFit => MemsPowered(rproc'.mems, nodes') /\ Powered(tmem', nodes')
      BY <2>2, <2>6, <2>8, <3>1, <3>2 DEF MemInv, Powered
    <3>4. MemInv'
      BY <1>0, <2>8, <3>1, <3>3 DEF MemInv
    <3> QED BY <2>5, <3>4
  <2> QED BY <2>3, <2>7, <2>8, Zenon
<1>7. CASE /\ nodes' = IF mapping THEN MapNodes(d.da, d.nmemsize) ELSE nodes
           /\ rproc' = [rproc EXCEPT !.mems =
                          IF mapping THEN MapMems(d.da, d.nmemsize, f) ELSE @]
           /\ UNCHANGED <<rsc, tmem>>
           /\ \/ NoblockFail(Err)
              \/ /\ d.ret # Failed /\ f # "map"
                 /\ info' = d.info
                 /\ pc' = IF d.nlen = 0 THEN "start" ELSE "nb_store"
  <2>1. /\ rproc' \in Rproc /\ nodes \subseteq nodes'
        /\ ImagesFit => MemsPowered(rproc'.mems, nodes')
        /\ mapping /\ f # "map" => Holding(rproc'.mems, d.da, d.nmemsize)
    <3>1. CASE mapping
      <4>1. d.da \in Nat /\ d.nmemsize \in Nat
        BY <1>3, <3>1 DEF AskOk
      <4>2. ImagesFit => Fits(d.da, d.nmemsize) /\ MemsPowered(rproc.mems, nodes)
        BY <1>3, <3>1 DEF AskOk, MemInv
      <4> DEFINE M == MapMems(d.da, d.nmemsize, f)
                 N == MapNodes(d.da, d.nmemsize)
      <4>3. /\ M \in Seq(Mem) /\ nodes \subseteq N
            /\ f # "map" => Holding(M, d.da, d.nmemsize)
            /\ ImagesFit => MemsPowered(M, N)
        BY <1>0, <4>1, <4>2, MapResult
      <4>4. nodes' = N /\ rproc' = [rproc EXCEPT !.mems = M]
        BY <1>7, <3>1
      <4> HIDE DEF M, N
      <4>5. rproc' \in Rproc /\ rproc'.mems = M
        BY <1>0, <4>3, <4>4 DEF Rproc
      <4> QED BY <4>3, <4>4, <4>5
    <3>2. CASE ~mapping
      <4>1. rproc' \in Rproc /\ rproc'.mems = rproc.mems /\ nodes' = nodes
        BY <1>0, <1>7, <3>2 DEF Rproc
      <4> QED BY <3>2, <4>1 DEF MemInv
    <3> QED BY <3>1, <3>2
  <2>2. ImagesFit => Powered(tmem', nodes')
    BY <1>7, <2>1 DEF MemInv, Powered
  <2>3. MemInv'
    BY <1>0, <1>7, <2>1, <2>2 DEF MemInv
  <2>4. CASE NoblockFail(Err)
    <3>1. pc' \in {"start", "cleanup"} /\ info' = NoInfo
      BY <2>4 DEF NoblockFail
    <3>2. ParseInv'
      BY <1>0, <1>1, <1>7, <3>1, ParseFrame
    <3> QED BY <2>3, <3>2
  <2>5. CASE /\ d.ret # Failed /\ f # "map" /\ info' = d.info
             /\ pc' = IF d.nlen = 0 THEN "start" ELSE "nb_store"
    <3>1. info' = NoInfo \/ SoundInfo(info')
      BY <1>3, <2>5 DEF AskOk, Parsed
    <3>2. CASE d.nlen = 0
      BY <1>0, <1>1, <1>7, <2>3, <2>5, <3>1, <3>2, ParseFrame
    <3>3. CASE d.nlen # 0
      <4>1. next' \in Request /\ next'.da = d.da /\ next'.noffset = d.noffset
            /\ next'.nlen = d.nlen /\ next'.nmemsize = d.nmemsize
        BY <1>3, <1>5, <2>5 DEF AskOk, Request
      <4>2. ASSUME next'.da # ANY
            PROVE  /\ SegmentAt(next.noffset, next.nlen)'
                   /\ Holding(rproc'.mems, next'.da, next'.nmemsize)
                   /\ ImagesFit => Fits(next'.da, next'.nmemsize) /\ next'.nlen <= next'.nmemsize
        <5>1. SoundInfo(info') /\ info'.state.ldr # "not_ready"
          BY <1>3, <2>5, <4>1, <4>2 DEF AskOk
        <5>2. info' # NoInfo
          BY <5>1, ParserAssumption DEF SoundInfo
        <5> QED BY <1>1, <1>3, <2>1, <2>5, <3>3, <4>1, <4>2, <5>1, <5>2 DEF AskOk, SegmentAt
      <4>3. pc' = "nb_store"
        BY <2>5, <3>3
      <4>4. ParseInv'
        BY <1>0, <1>1, <1>7, <3>1, <4>1, <4>2, <4>3 DEF ParseInv
      <4> QED BY <2>3, <4>4
    <3> QED BY <3>2, <3>3
  <2> QED BY <1>7, <2>4, <2>5
<1> QED BY <1>4, <1>6, <1>7, Zenon

\* The caller of the non-blocking function writes only to what was mapped for
\* it in the call before.
LEMMA StoreStep ==
    ASSUME ParseInv, MemInv, NoblockStore
    PROVE  ParseInv' /\ MemInv'
<1>0. /\ image \in Images /\ chunk \in Chunk /\ pc = "nb_store" /\ next \in Request
      /\ rproc \in Rproc /\ rproc.mems \in Seq(Mem) /\ DOMAIN tmem = Cells
      /\ rsc \in Section /\ (rsc.size = 0 \/ rsc = image.rsc)
      /\ info = NoInfo \/ SoundInfo(info)
      /\ next.noffset \in Nat /\ next.nlen \in Nat /\ next.nmemsize \in Nat
      /\ next.da \in Nat \cup {ANY}
  BY DEF NoblockStore, ParseInv, MemInv, Rproc, Request
<1>1. UNCHANGED <<image, rproc, nodes, info, next, rsc>>
  BY DEF NoblockStore, input
<1> DEFINE pa == MapPa(next.da, next.nmemsize, "none")
<1>2. PICK f, r :
        /\ r \in Delivered(next.nlen, f)
        /\ \/ next.da = ANY /\ UNCHANGED tmem
           \/ /\ next.da # ANY
              /\ tmem' = Written(tmem, pa, next.noffset, Max({r, 0}),
                                 IF r = next.nlen THEN next.nmemsize ELSE Max({r, 0}))
        /\ chunk' = [at |-> IF next.da = ANY THEN next.noffset ELSE chunk.at,
                     offset |-> next.noffset, len |-> next.nlen]
        /\ pc' = IF r = next.nlen THEN "nb_call" ELSE IF r < 0 THEN "cleanup" ELSE "remove"
  BY Zenon DEF NoblockStore
<1>3. chunk' \in Chunk /\ chunk'.offset = next.noffset /\ chunk'.len = next.nlen
      /\ (next.da = ANY => chunk'.at = chunk'.offset)
  BY <1>0, <1>2 DEF Chunk
<1>4. pc' \in {"nb_call", "cleanup", "remove"}
  BY <1>2
<1>5. chunk'.at = chunk'.offset \/ SegmentAt(chunk.offset, chunk.len)'
  <2>1. CASE next.da = ANY
    BY <1>3, <2>1
  <2>2. CASE next.da # ANY
    BY <1>0, <1>1, <1>3, <2>2 DEF ParseInv, SegmentAt
  <2> QED BY <2>1, <2>2
<1>6. ParseInv'
  BY <1>0, <1>1, <1>3, <1>4, <1>5 DEF ParseInv
<1>7. CASE next.da = ANY
  BY <1>0, <1>1, <1>2, <1>6, <1>7, MemFrame
<1>8. CASE next.da # ANY
  <2>1. r \in Int /\ r <= next.nlen
    BY <1>0, <1>2 DEF Delivered
  <2>2. Max({r, 0}) \in Nat /\ Max({r, 0}) <= next.nlen
    BY <1>0, <2>1, MaxZero
  <2> DEFINE size == IF r = next.nlen THEN next.nmemsize ELSE Max({r, 0})
  <2>3. tmem' = Written(tmem, pa, next.noffset, Max({r, 0}), size)
    BY <1>2, <1>8
  <2>4. DOMAIN tmem' = Cells
    BY <1>0, <2>3 DEF Written
  <2>5. ASSUME ImagesFit PROVE Powered(tmem', nodes')
    <3>1. /\ Fits(next.da, next.nmemsize) /\ next.nlen <= next.nmemsize
          /\ Holding(rproc.mems, next.da, next.nmemsize) /\ next.da \in Nat
          /\ MemsPowered(rproc.mems, nodes) /\ Powered(tmem, nodes)
      BY <1>0, <1>8, <2>5 DEF ParseInv, MemInv
    <3>2. pa \in Nat /\ RangePowered(pa, next.nmemsize, nodes)
      <4>1. Known(next.da, next.nmemsize)
        BY <1>0, <3>1, MapResult
      <4>2. MapNodes(next.da, next.nmemsize) = nodes
        BY <4>1 DEF MapNodes
      <4> QED BY <1>0, <3>1, <4>2, MapResult
    <3>3. size \in Nat /\ size <= next.nmemsize /\ Max({r, 0}) <= next.nmemsize
      BY <1>0, <2>2, <3>1
    <3> HIDE DEF size, pa
    <3>4. Powered(Written(tmem, pa, next.noffset, Max({r, 0}), size), nodes)
      BY <1>0, <2>2, <3>1, <3>2, <3>3, WriteResult
    <3> QED BY <1>1, <2>3, <3>4
  <2>6. MemInv'
    BY <1>0, <1>1, <2>4, <2>5 DEF MemInv
  <2> QED BY <1>6, <2>6
<1> QED BY <1>7, <1>8

\* Every step of the program keeps the invariants.
LEMMA LoadStep ==
    ParseInv /\ MemInv /\ FlowInv /\ [Next]_vars => ParseInv' /\ MemInv'
<1> SUFFICES ASSUME ParseInv, MemInv, FlowInv, [Next]_vars PROVE ParseInv' /\ MemInv'
  OBVIOUS
<1>1. CASE UNCHANGED vars
  <2>1. UNCHANGED <<image, chunk, rsc, info, next, last, pc, rproc, nodes, tmem>>
    BY <1>1 DEF vars, input, target, parse
  <2> QED BY <2>1 DEF ParseInv, MemInv, SegmentAt
<1>2. CASE Step
  BY <1>2, ProgramSteps, OpenSteps, HeaderStep, LocateSteps, DataStep, FinishStep, CallStep,
     StoreStep DEF Step
<1> QED BY <1>1, <1>2 DEF Next, Ended

\* For any images that fit, any lengths delivered and any failures: nothing is
\* ever written to a bank of tightly coupled memory r5_rproc_mmap has not
\* requested the power node of.
THEOREM BanksPowered == ImagesFit => (Spec => []WrittenPowered)
<1> SUFFICES ASSUME ImagesFit PROVE Spec => []WrittenPowered
  OBVIOUS
<1>1. Init => ParseInv /\ MemInv /\ FlowInv
  BY LoadInit DEF Init, FlowInv, LoadPcs
<1>2. ParseInv /\ MemInv /\ FlowInv /\ [Next]_vars => ParseInv' /\ MemInv' /\ FlowInv'
  BY LoadStep, FlowStep
<1>3. MemInv => WrittenPowered
  BY DEF MemInv, Powered, WrittenPowered, Tcm
<1> QED BY <1>1, <1>2, <1>3, PTL DEF Spec

\* For any images whose section headers are no part of a segment: on every way
\* out of remoteproc_load the store is closed and what was allocated released,
\* and no header table is ever copied from bytes img_data does not point to.
THEOREM LoadAlwaysReleases == SectionsApart => (Spec => []LoadReleases)
<1> SUFFICES ASSUME SectionsApart PROVE Spec => []LoadReleases
  OBVIOUS
<1>1. Init => ParseInv /\ MemInv /\ FlowInv
  BY LoadInit DEF Init, FlowInv, LoadPcs
<1>2. ParseInv /\ MemInv /\ FlowInv /\ [Next]_vars => ParseInv' /\ MemInv' /\ FlowInv'
  BY LoadStep, FlowStep
<1>3. ParseInv /\ FlowInv => LoadReleases
  BY DEF ParseInv, FlowInv, SoundInfo, LoadReleases
<1> QED BY <1>1, <1>2, <1>3, PTL DEF Spec

(***************************************************************************)
(* Where the segments are.                                                 *)
(***************************************************************************)
\* The physical address of a device address.
Pa(da) == IF da <= 4 * Bank THEN TcmBase + da ELSE da

\* Every region is where r5_rproc_mmap puts it, and all of it on one side of
\* the end of the tightly coupled memory.
Straight(M) ==
    \A i \in DOMAIN M : WithinTcm(M[i].da, M[i].size) /\ M[i].pa = Pa(M[i].da)

\* remoteproc_mmap then gives every range its own address.
LEMMA MapStraight ==
    ASSUME rproc.mems \in Seq(Mem), Straight(rproc.mems), NEW da \in Nat, NEW size \in Nat,
           WithinTcm(da, size), NEW f
    PROVE  /\ Straight(MapMems(da, size, f))
           /\ size > 0 /\ (MapPa(da, size, f) # ANY \/ f # "map") => MapPa(da, size, f) = Pa(da)
<1> DEFINE S == remoteproc_get_mem(da, size)
           new == r5_rproc_mmap(da, size)
<1>0. /\ Bank \in Nat \ {0} /\ TcmBase \in Nat /\ DOMAIN rproc.mems = 1..Len(rproc.mems)
      /\ \A i \in DOMAIN rproc.mems : /\ rproc.mems[i].da \in Nat /\ rproc.mems[i].pa \in Nat
                                      /\ rproc.mems[i].size \in Nat
  <2>1. \A i \in DOMAIN rproc.mems : rproc.mems[i] \in Mem
    OBVIOUS
  <2> QED BY <2>1, ImageAssumption DEF Mem
<1>1. new \in Mem /\ new.da = da /\ new.size = size /\ new.pa = Pa(da)
  BY <1>0 DEF r5_rproc_mmap, Mem, Pa
<1>2. CASE Known(da, size)
  <2> DEFINE i == Min(S)
  <2>1. S \in SUBSET Nat /\ S # {}
    BY <1>0, <1>2 DEF remoteproc_get_mem, Known
  <2>2. i \in S
    BY <2>1, MinExists
  <2> HIDE DEF i
  <2>3. /\ i \in DOMAIN rproc.mems /\ rproc.mems[i].da <= da
        /\ da + size <= rproc.mems[i].da + rproc.mems[i].size
    BY <2>2 DEF remoteproc_get_mem
  <2>4. MapPa(da, size, f) = rproc.mems[i].pa + da - rproc.mems[i].da
    BY <1>2 DEF MapPa, remoteproc_datopa, i
  <2>5. MapMems(da, size, f) = rproc.mems
    BY <1>2 DEF MapMems
  <2>6. WithinTcm(rproc.mems[i].da, rproc.mems[i].size) /\ rproc.mems[i].pa = Pa(rproc.mems[i].da)
    BY <2>3 DEF Straight
  <2>7. size > 0 => MapPa(da, size, f) = Pa(da)
    <3>1. \A a, b \in Nat : b <= da /\ da + size <= b + a /\ size > 0 /\ WithinTcm(b, a) =>
            Pa(b) + da - b = Pa(da)
      BY <1>0 DEF WithinTcm, Pa
    <3> QED BY <1>0, <2>3, <2>4, <2>6, <3>1
  <2> QED BY <2>5, <2>7
<1>3. CASE ~Known(da, size) /\ f = "map"
  <2>1. MapMems(da, size, f) = rproc.mems /\ MapPa(da, size, f) = ANY
    BY <1>3 DEF MapMems, MapPa
  <2> QED BY <1>3, <2>1
<1>4. CASE ~Known(da, size) /\ f # "map"
  <2>1. MapMems(da, size, f) = Append(rproc.mems, new) /\ MapPa(da, size, f) = new.pa
    BY <1>4 DEF MapMems, MapPa
  <2> DEFINE M == Append(rproc.mems, new)
             n == Len(rproc.mems) + 1
  <2>2. /\ M[n] = new
        /\ \A i \in DOMAIN M : i # n => i \in DOMAIN rproc.mems /\ M[i] = rproc.mems[i]
    BY <1>0, <1>1
  <2> HIDE DEF M, n, new
  <2>3. Straight(M)
    BY <1>1, <2>2 DEF Straight
  <2> QED BY <1>1, <2>1, <2>3 DEF M
<1> QED BY <1>2, <1>3, <1>4

\* A segment of an image that fits.
Placeable(s) ==
    s \in Segment /\ s.filesz <= s.memsz /\ s.da + s.memsz <= Top /\ WithinTcm(s.da, s.memsz)

\* Every load segment of a regular image is one.
LEMMA SegmentPlaceable ==
    ASSUME ImagesFit, ImagesRegular, NEW img \in Images, NEW i \in DOMAIN img.segs, img.segs[i].load
    PROVE  Placeable(img.segs[i]) /\ TableInside(img, img.segs[i])
<1>1. img.segs \in Seq(Segment)
  BY ImageAssumption DEF ElfImage
<1>2. img.segs[i] \in Segment
  BY <1>1
<1> QED BY <1>2 DEF Placeable, ImagesFit, ImagesRegular

\* A segment in place, unit by unit, in memory m.
UnitInPlace(img, s, k, unit) ==
    IF k < s.filesz
    THEN \/ unit = FileUnit(s.offset + k)
         \/ /\ img.rsc.size > 0
            /\ s.offset + k \in img.rsc.offset..(img.rsc.offset + img.rsc.size - 1)
            /\ unit = img.size + FileUnit(s.offset + k)
    ELSE unit = Padding
InPlace(m, img, s) ==
    \A k \in 0..(s.memsz - 1) : UnitInPlace(img, s, k, m[Pa(s.da) + k])

\* The load segments among the first n headers are in place.
PlacedTo(m, img, n) ==
    \A i \in DOMAIN img.segs : i <= n /\ img.segs[i].load => InPlace(m, img, img.segs[i])

\* This is what Complete says of all headers.
LEMMA CompleteIs ==
    ASSUME image \in Images
    PROVE  /\ Complete <=> /\ PlacedTo(tmem, image, Len(image.segs))
                           /\ rproc.bootaddr = image.entry
<1>1. \A s : SegmentInPlace(s) <=> InPlace(tmem, image, s)
  <2> SUFFICES ASSUME NEW s PROVE SegmentInPlace(s) <=> InPlace(tmem, image, s)
    OBVIOUS
  <2>1. r5_rproc_mmap(s.da, s.memsz).pa = Pa(s.da)
    BY DEF r5_rproc_mmap, Pa
  <2> QED BY <2>1 DEF SegmentInPlace, InPlace, UnitInPlace, InTable, TableUnit
<1>2. \A i \in DOMAIN image.segs : i <= Len(image.segs)
  <2>1. image.segs \in Seq(Segment)
    BY ImageAssumption DEF ElfImage
  <2> QED BY <2>1
<1> QED BY <1>1, <1>2 DEF Complete, PlacedTo

\* Each unit of a segment has a cell of its own.
LEMMA UnitCells ==
    ASSUME NEW s, Placeable(s), NEW k \in 0..(s.memsz - 1)
    PROVE  Pa(s.da) + k \in Cells /\ Pa(s.da) + k = Pa(s.da + k) /\ s.da + k < Top
<1>1. /\ s.da \in Nat /\ s.memsz \in Nat /\ Bank \in Nat /\ TcmBase \in Nat /\ Top \in Nat
  BY ImageAssumption DEF Placeable, Segment
<1> QED BY <1>1 DEF Placeable, WithinTcm, Pa, Cells

\* Below Top two device addresses are never at the same physical address.
LEMMA PaApart ==
    ASSUME NEW a \in Nat, NEW b \in Nat, a < Top, b < Top, Pa(a) = Pa(b)
    PROVE  a = b
BY ImageAssumption DEF Pa

\* A segment that is written at its address is in place.
LEMMA WritePlaces ==
    ASSUME NEW s, Placeable(s), NEW m, DOMAIN m = Cells, NEW img,
           NEW pa, s.memsz > 0 => pa = Pa(s.da)
    PROVE  InPlace(Written(m, pa, s.offset, s.filesz, s.memsz), img, s)
<1>0. /\ s.da \in Nat /\ s.memsz \in Nat /\ s.filesz \in Nat /\ s.offset \in Nat
      /\ s.filesz <= s.memsz
  BY DEF Placeable, Segment
<1> DEFINE w == Written(m, pa, s.offset, s.filesz, s.memsz)
<1>1. ASSUME NEW k \in 0..(s.memsz - 1)
      PROVE  w[Pa(s.da) + k] = IF k < s.filesz THEN FileUnit(s.offset + k) ELSE Padding
  <2>1. pa = Pa(s.da) /\ Pa(s.da) \in Nat /\ Pa(s.da) + k \in Cells
    BY <1>0, UnitCells, ImageAssumption DEF Pa
  <2> DEFINE p == pa + k
  <2>2. p \in DOMAIN m /\ p - pa = k
    BY <1>0, <2>1
  <2>3. w[p] = IF p \in pa..(pa + s.filesz - 1) THEN FileUnit(s.offset + (p - pa))
               ELSE IF p \in (pa + s.filesz)..(pa + s.memsz - 1) THEN Padding ELSE m[p]
    BY <2>2 DEF Written
  <2>4. /\ p \in pa..(pa + s.filesz - 1) <=> k < s.filesz
        /\ p \in (pa + s.filesz)..(pa + s.memsz - 1) <=> ~(k < s.filesz)
    BY <1>0, <2>1
  <2> HIDE DEF w
  <2> QED BY <2>1, <2>2, <2>3, <2>4
<1> HIDE DEF w
<1>2. InPlace(w, img, s)
  BY <1>1 DEF InPlace, UnitInPlace
<1> QED BY <1>2 DEF w

\* A write into one segment leaves the others as they are.
LEMMA WriteKeeps ==
    ASSUME NEW s, Placeable(s), NEW t, Placeable(t), ~Overlap(s, t),
           NEW m, DOMAIN m = Cells, NEW img,
           NEW pa \in Nat, s.memsz > 0 => pa = Pa(s.da), NEW off, NEW n \in Nat, NEW size \in Nat,
           n <= s.memsz, size <= s.memsz, InPlace(m, img, t)
    PROVE  InPlace(Written(m, pa, off, n, size), img, t)
<1>0. /\ s.da \in Nat /\ s.memsz \in Nat /\ t.da \in Nat /\ t.memsz \in Nat
      /\ s.da + s.memsz <= Top /\ t.da + t.memsz <= Top /\ Top \in Nat /\ TcmBase \in Nat
      /\ Bank \in Nat
  BY ImageAssumption DEF Placeable, Segment
<1> DEFINE w == Written(m, pa, off, n, size)
<1>1. ASSUME NEW k \in 0..(t.memsz - 1) PROVE w[Pa(t.da) + k] = m[Pa(t.da) + k]
  <2> DEFINE p == Pa(t.da) + k
  <2>1. p \in Cells /\ p = Pa(t.da + k) /\ t.da + k < Top
    BY UnitCells
  <2>2. CASE s.memsz = 0
    <3>1. n = 0 /\ size = 0
      BY <1>0, <2>2
    <3>2. ~(p \in pa..(pa + n - 1)) /\ ~(p \in (pa + n)..(pa + size - 1))
      <4>1. p \in Int
        BY <1>0, <2>1 DEF Cells
      <4> QED BY <3>1, <4>1
    <3> QED BY <2>1, <3>2 DEF Written
  <2>3. CASE s.memsz > 0
    <3>1. ASSUME p \in pa..(pa + s.memsz - 1) PROVE FALSE
      <4> DEFINE j == p - pa
      <4>1. pa = Pa(s.da) /\ pa \in Nat /\ p \in Nat
        BY <1>0, <2>3 DEF Pa
      <4>2. j \in 0..(s.memsz - 1) /\ p = pa + j
        BY <1>0, <3>1, <4>1
      <4>3. Pa(s.da) + j = Pa(s.da + j) /\ s.da + j < Top
        BY <4>2, UnitCells
      <4>4. s.da + j = t.da + k
        <5>1. s.da + j \in Nat /\ t.da + k \in Nat /\ Pa(s.da + j) = Pa(t.da + k)
          BY <1>0, <2>1, <4>1, <4>2, <4>3
        <5> QED BY <2>1, <4>3, <5>1, PaApart
      <4> QED BY <1>0, <4>2, <4>4 DEF Overlap
    <3>2. pa \in Nat /\ p \in Nat
      BY <1>0, <2>3 DEF Pa
    <3>3. ~(p \in pa..(pa + n - 1)) /\ ~(p \in (pa + n)..(pa + size - 1))
      BY <1>0, <3>1, <3>2
    <3> QED BY <2>1, <3>3 DEF Written
  <2> QED BY <1>0, <2>2, <2>3
<1> HIDE DEF w
<1>2. InPlace(w, img, t)
  BY <1>1 DEF InPlace
<1> QED BY <1>2 DEF w

\* The table written at its address leaves every segment in place.
LEMMA TableKeeps ==
    ASSUME NEW t, Placeable(t), image \in Images, TableInside(image, t),
           NEW m, DOMAIN m = Cells, NEW pa \in Nat, image.rsc.size > 0 => pa = Pa(image.rsc.da),
           image.rsc.da + image.rsc.size <= Top, WithinTcm(image.rsc.da, image.rsc.size),
           InPlace(m, image, t)
    PROVE  InPlace(TableAt(m, pa, image.rsc), image, t)
<1> DEFINE r == image.rsc
           w == TableAt(m, pa, image.rsc)
<1>0. /\ t.da \in Nat /\ t.memsz \in Nat /\ t.offset \in Nat /\ r.da \in Nat /\ r.size \in Nat
      /\ r.offset \in Nat /\ t.da + t.memsz <= Top /\ Top \in Nat /\ TcmBase \in Nat /\ Bank \in Nat
  BY ImageAssumption DEF Placeable, Segment, ElfImage
<1>1. ASSUME NEW k \in 0..(t.memsz - 1)
      PROVE  \/ w[Pa(t.da) + k] = m[Pa(t.da) + k]
             \/ /\ k < t.filesz /\ r.size > 0 /\ t.offset + k \in r.offset..(r.offset + r.size - 1)
                /\ w[Pa(t.da) + k] = image.size + FileUnit(t.offset + k)
  <2> DEFINE p == Pa(t.da) + k
  <2>1. p \in Cells /\ p = Pa(t.da + k) /\ t.da + k < Top
    BY UnitCells
  <2>2. w[p] = IF p \in pa..(pa + r.size - 1) THEN image.size + FileUnit(r.offset + (p - pa))
               ELSE m[p]
    BY <2>1 DEF TableAt, TableUnit
  <2> HIDE DEF w
  <2>3. CASE p \in pa..(pa + r.size - 1) /\ r.size > 0
    <3> DEFINE j == p - pa
    <3>1. pa = Pa(r.da) /\ pa \in Nat /\ p \in Nat
      BY <1>0, <2>3 DEF Pa
    <3>2. j \in 0..(r.size - 1) /\ p = pa + j
      BY <1>0, <2>3, <3>1
    <3>3. Pa(r.da) + j = Pa(r.da + j) /\ r.da + j < Top
      BY <1>0, <3>2 DEF Pa, WithinTcm
    <3>4. r.da + j = t.da + k
      <4>1. r.da + j \in Nat /\ t.da + k \in Nat /\ Pa(r.da + j) = Pa(t.da + k)
        BY <1>0, <2>1, <3>1, <3>2, <3>3
      <4> QED BY <2>1, <3>3, <4>1, PaApart
    <3>5. k < t.filesz /\ t.offset + k = r.offset + (t.da + k - r.da)
      <4>1. t.da + k \in r.da..(r.da + r.size - 1)
        BY <1>0, <3>2, <3>4
      <4> QED BY <4>1 DEF TableInside
    <3>6. t.offset + k = r.offset + j
      BY <1>0, <3>2, <3>4, <3>5
    <3>7. t.offset + k \in r.offset..(r.offset + r.size - 1)
      BY <1>0, <2>3, <3>2, <3>6
    <3> QED BY <2>2, <2>3, <3>5, <3>6, <3>7
  <2>4. CASE ~(p \in pa..(pa + r.size - 1))
    BY <2>2, <2>4
  <2>5. CASE r.size = 0
    <3>1. ~(p \in pa..(pa + r.size - 1))
      <4>1. p \in Int
        BY <1>0, <2>1 DEF Cells
      <4> QED BY <2>5, <4>1
    <3> QED BY <2>2, <3>1
  <2> QED BY <1>0, <2>3, <2>4, <2>5
<1> HIDE DEF w
<1>2. InPlace(w, image, t)
  BY <1>1 DEF InPlace, UnitInPlace
<1> QED BY <1>2 DEF w

(***************************************************************************)
(* How far the image has been loaded.                                      *)
(***************************************************************************)
\* What the theorem about complete images assumes.
Usual == ~Short /\ ImagesFit /\ ImagesRegular

\* The number of headers behind the loader, up to the last one.
Counted(img, i) ==
    /\ i.state.nseg <= Len(img.segs)
    /\ i.state.ldr \in {"post_data_load", "load_complete"} => i.state.nseg = Len(img.segs)

\* A request for a whole segment.
IsSegment(r, s) == /\ s.load /\ r.da = s.da /\ r.noffset = s.offset
                   /\ r.nlen = s.filesz /\ r.nmemsize = s.memsz

\* elf_load asks for the next load segment, or there is none.
AsksNext(d, img, n) ==
    LET k == d.info.state.nseg
    IN  /\ d.da # ANY /\ n < k /\ k \in DOMAIN img.segs /\ IsSegment(d, img.segs[k])
        /\ \A j \in DOMAIN img.segs : n < j /\ j < k => ~img.segs[j].load
        /\ d.info.state.ldr = "ready_to_load" => k < Len(img.segs)
AsksNone(d, img, n) ==
    /\ \A j \in DOMAIN img.segs : n < j => ~img.segs[j].load
    /\ d.da # ANY => d.nlen = 0 /\ d.nmemsize = 0

LoadMore(d, img, i) ==
    d.ret # Failed =>
      /\ Counted(img, d.info)
      /\ d.da # ANY => d.da \in Nat /\ d.nmemsize \in Nat /\ WithinTcm(d.da, d.nmemsize)
      /\ AsksNext(d, img, i.state.nseg) \/ AsksNone(d, img, i.state.nseg)
      /\ i.state.ldr = "post_data_load" /\ i.state.hdr = "complete" => d.ret.ldr = "load_complete"

\* elf_load in the state ready_to_load skips no load segment.
LEMMA SegmentMore ==
    ASSUME Usual, NEW img \in Images, NEW i, SoundInfo(i), i.state.ldr = "ready_to_load",
           Counted(img, i),
           NEW out, out.da = ANY, out.noffset \in Nat, out.nlen \in Nat, out.nmemsize = 0,
           out.nlen = 0 \/ i.state.nseg = 0
    PROVE  LoadMore(LoadSegment(img, i, out), img, i)
<1> DEFINE n == i.state.nseg
           rest == (n + 1)..Len(img.segs)
           loads == {j \in rest : img.segs[j].load}
           m == IF loads # {} THEN Min(loads) ELSE Len(img.segs)
           t == elf_next_load_segment(img, n, out)
           last_ == t.found /\ t.nseg = Len(img.segs)
           st == [i.state EXCEPT !.nseg = t.nseg % (NextSegmentMask + 1),
                                 !.ldr = IF last_ THEN "post_data_load" ELSE @]
<1>1. /\ img \in ElfImage /\ img.segs \in Seq(Segment) /\ Len(img.segs) \in Nat
      /\ NextSegmentMask \in Nat /\ ANY \notin Nat
      /\ DOMAIN img.segs = 1..Len(img.segs)
  BY ImageAssumption, ParserAssumption DEF ElfImage
<1>2. n \in Nat /\ n <= Len(img.segs) /\ Len(img.segs) <= NextSegmentMask
  BY <1>1 DEF SoundInfo, SoundState, LoadState, Counted, Usual, ImagesRegular
<1>3. loads # {} => m \in loads /\ \A j \in loads : m <= j
  <2>1. loads \in SUBSET Nat
    BY <1>1, <1>2
  <2> QED BY <2>1, MinExists
<1>4. rest # {} => m \in rest /\ m \in DOMAIN img.segs
  BY <1>1, <1>2, <1>3
<1>5. t = [found |-> loads # {},
           nseg |-> IF rest = {} THEN n ELSE m,
           da |-> IF rest = {} THEN out.da ELSE img.segs[m].da,
           noffset |-> IF rest = {} THEN out.noffset ELSE img.segs[m].offset,
           nlen |-> IF loads = {} THEN out.nlen ELSE img.segs[m].filesz,
           nmemsize |-> IF loads = {} THEN out.nmemsize ELSE img.segs[m].memsz]
  BY DEF elf_next_load_segment
<1>6. LoadSegment(img, i, out) =
        [ret |-> st, info |-> [i EXCEPT !.state = st], da |-> t.da,
         noffset |-> t.noffset, nlen |-> t.nlen, nmemsize |-> t.nmemsize]
  BY DEF LoadSegment
<1>7. n = 0 => loads # {}
  <2>1. Loads(img)
    BY DEF Usual, ImagesFit
  <2> QED BY <1>1, <2>1 DEF Loads
<1>8. \A j \in DOMAIN img.segs : n < j /\ img.segs[j].load => j \in loads
  BY <1>1, <1>2
<1>9. loads # {} => rest # {} /\ img.segs[m].load /\ n < m /\ m <= Len(img.segs)
  BY <1>1, <1>2, <1>3
<1>10. \A j \in rest : j \in DOMAIN img.segs /\ img.segs[j] \in Segment
  BY <1>1, <1>2
<1> HIDE DEF rest, loads, m, t
<1>11. i.state \in LoadState /\ i \in ElfInfo
  BY DEF SoundInfo, SoundState
<1>12. /\ st.nseg = t.nseg % (NextSegmentMask + 1)
       /\ st.ldr = (IF last_ THEN "post_data_load" ELSE "ready_to_load")
       /\ [i EXCEPT !.state = st].state = st
  BY <1>11 DEF LoadState, ElfInfo
<1> HIDE DEF st, n
<1> SUFFICES ASSUME NEW d, d = LoadSegment(img, i, out) PROVE LoadMore(d, img, i)
  OBVIOUS
<1>13. /\ d.info.state = st /\ d.da = t.da /\ d.ret = st
       /\ d.noffset = t.noffset /\ d.nlen = t.nlen /\ d.nmemsize = t.nmemsize
  <2>1. /\ d.info = [i EXCEPT !.state = st] /\ d.da = t.da /\ d.ret = st
        /\ d.noffset = t.noffset /\ d.nlen = t.nlen /\ d.nmemsize = t.nmemsize
    BY <1>6
  <2> QED BY <1>12, <2>1
<1>14. CASE loads # {}
  <2>1. /\ t.found = TRUE /\ t.nseg = m /\ t.da = img.segs[m].da /\ t.noffset = img.segs[m].offset
        /\ t.nlen = img.segs[m].filesz /\ t.nmemsize = img.segs[m].memsz
    BY <1>5, <1>9, <1>14
  <2>2. m \in DOMAIN img.segs /\ m \in Nat /\ n < m /\ m <= Len(img.segs) /\ img.segs[m].load
    BY <1>1, <1>4, <1>9, <1>14
  <2>3. m % (NextSegmentMask + 1) = m
    <3>1. \A a, b \in Nat : a <= b => a % (b + 1) = a
      OBVIOUS
    <3>2. m <= NextSegmentMask
      BY <1>1, <1>2, <2>2
    <3> QED BY <1>1, <2>2, <3>1, <3>2
  <2>4. st.nseg = m /\ st.ldr = (IF m = Len(img.segs) THEN "post_data_load" ELSE "ready_to_load")
    BY <1>12, <2>1, <2>3
  <2>5. img.segs[m] \in Segment
    BY <1>1, <2>2
  <2>6. img.segs[m].da \in Nat /\ img.segs[m].memsz \in Nat
    BY <2>5 DEF Segment
  <2>7. WithinTcm(img.segs[m].da, img.segs[m].memsz)
    BY <2>2 DEF Usual, ImagesRegular
  <2>8. AsksNext(d, img, n)
    <3>1. d.da # ANY
      BY <1>1, <1>13, <2>1, <2>6
    <3>2. IsSegment(d, img.segs[m])
      BY <1>13, <2>1, <2>2 DEF IsSegment
    <3>3. \A j \in DOMAIN img.segs : n < j /\ j < m => ~img.segs[j].load
      BY <1>1, <1>3, <1>8, <1>14, <2>2
    <3>4. st.ldr = "ready_to_load" => m < Len(img.segs)
      BY <1>1, <2>2, <2>4
    <3> QED BY <1>13, <2>2, <2>4, <3>1, <3>2, <3>3, <3>4 DEF AsksNext
  <2>9. Counted(img, d.info)
    BY <1>13, <2>2, <2>4 DEF Counted
  <2> QED BY <1>13, <2>1, <2>6, <2>7, <2>8, <2>9 DEF LoadMore, n
<1>15. CASE loads = {}
  <2>1. t.found = FALSE /\ t.nlen = 0 /\ t.nmemsize = 0
    BY <1>5, <1>7, <1>15 DEF n
  <2>2. t.nseg \in Nat /\ t.nseg <= Len(img.segs) /\ (t.da = ANY \/ t.da \in Nat)
    <3>1. CASE rest = {}
      BY <1>2, <1>5, <3>1
    <3>2. CASE rest # {}
      <4>1. m \in DOMAIN img.segs /\ img.segs[m] \in Segment
        BY <1>4, <1>10, <3>2
      <4>2. img.segs[m].da \in Nat
        BY <4>1 DEF Segment
      <4>4. m \in Nat /\ m <= Len(img.segs)
        BY <1>1, <4>1
      <4>3. t.nseg = m /\ t.da = img.segs[m].da
        BY <1>5, <3>2
      <4> QED BY <4>2, <4>3, <4>4
    <3> QED BY <3>1, <3>2
  <2>3. st.nseg = t.nseg /\ st.ldr = "ready_to_load"
    <3>1. \A a, b \in Nat : a <= b => a % (b + 1) = a
      OBVIOUS
    <3>2. t.nseg <= NextSegmentMask
      BY <1>1, <1>2, <2>2
    <3>3. t.nseg % (NextSegmentMask + 1) = t.nseg
      BY <1>1, <2>2, <3>1, <3>2
    <3> QED BY <1>12, <2>1, <3>3
  <2>4. AsksNone(d, img, n)
    BY <1>8, <1>13, <1>15, <2>1 DEF AsksNone
  <2>5. Counted(img, d.info)
    BY <1>13, <2>2, <2>3 DEF Counted
  <2>6. d.da # ANY => d.da \in Nat /\ d.nmemsize \in Nat /\ WithinTcm(d.da, d.nmemsize)
    BY <1>13, <2>1, <2>2, ImageAssumption DEF WithinTcm
  <2> QED BY <2>4, <2>5, <2>6 DEF LoadMore, n
<1> QED BY <1>14, <1>15

\* Behind the last segment it asks for no other.
LEMMA PostDataMore ==
    ASSUME Usual, NEW img \in Images, NEW i, SoundInfo(i), i.state.ldr = "post_data_load",
           Counted(img, i), NEW ch \in Chunk, ch.at = ch.offset \/ NotSections(img, ch),
           NEW out, out.da = ANY, out.noffset \in Nat, out.nlen \in Nat, out.nmemsize = 0,
           NEW f
    PROVE  LoadMore(PostDataLoad(img, i, i.state, ch, out, f), img, i)
<1> SUFFICES ASSUME NEW h,
                    h = IF i.state.hdr = "complete"
                        THEN [ret |-> i.state, info |-> i, noffset |-> out.noffset, nlen |-> 0]
                        ELSE elf_load_header(img, i, i.state, ch, out, f)
             PROVE  LoadMore(PostDataLoad(img, i, i.state, ch, out, f), img, i)
  OBVIOUS
<1> DEFINE done == h.ret # Failed /\ h.info.state.hdr = "complete"
           st == [h.info.state EXCEPT !.ldr = IF done THEN "load_complete" ELSE @]
           d == PostDataLoad(img, i, i.state, ch, out, f)
<1>1. img \in ElfImage /\ DOMAIN img.segs = 1..Len(img.segs) /\ Len(img.segs) \in Nat
  BY ImageAssumption DEF ElfImage
<1>2. i.state # InitState /\ i.state.hdr # "phdrs" /\ Parsed(i.state, i)
  BY DEF SoundInfo, SoundState, InitState, Parsed
<1>3. ASSUME h.ret # Failed
      PROVE  /\ SoundInfo(h.info) /\ h.info.state.ldr = "post_data_load"
             /\ h.info.state.nseg = i.state.nseg
             /\ i.state.hdr = "complete" => h.info.state.hdr = "complete"
  <2>1. CASE i.state.hdr = "complete"
    BY <2>1
  <2>2. CASE i.state.hdr # "complete"
    <3>a. RightBytes(img, i, ch)
      BY <1>2 DEF RightBytes
    <3>b. h = elf_load_header(img, i, i.state, ch, out, f)
      BY <2>2, Zenon
    <3>1. HeaderOk(h, i.state, i)
      BY <1>1, <1>2, <3>a, <3>b, HeaderCall
    <3>2. HeaderResult(h, i.state.ldr, i.state.nseg)
      BY <1>2, <1>3, <3>1 DEF HeaderOk
    <3> QED BY <2>2, <3>2 DEF HeaderResult
  <2> QED BY <2>1, <2>2
<1>4. d = [ret |-> IF h.ret = Failed THEN Failed ELSE st,
           info |-> [h.info EXCEPT !.state = st],
           da |-> IF h.ret = Failed \/ i.state.hdr = "complete" THEN out.da ELSE ANY,
           noffset |-> h.noffset, nlen |-> IF done THEN 0 ELSE h.nlen,
           nmemsize |-> out.nmemsize]
  BY DEF PostDataLoad
<1>5. ASSUME h.ret # Failed
      PROVE  /\ st.nseg = i.state.nseg /\ [h.info EXCEPT !.state = st].state = st
             /\ i.state.hdr = "complete" => st.ldr = "load_complete"
  <2>1. h.info \in ElfInfo /\ h.info.state \in LoadState
    BY <1>3, <1>5 DEF SoundInfo, SoundState
  <2> QED BY <1>3, <1>5, <2>1 DEF ElfInfo, LoadState
<1> HIDE DEF st
<1>7. /\ d.da = ANY /\ (d.ret # Failed => h.ret # Failed /\ d.ret = st)
      /\ d.info = [h.info EXCEPT !.state = st]
  BY <1>4
<1> HIDE DEF d
<1>8. i.state.nseg = Len(img.segs)
  BY DEF Counted
<1>9. LoadMore(d, img, i)
  BY <1>1, <1>5, <1>7, <1>8 DEF LoadMore, Counted, AsksNone
<1> QED BY <1>9 DEF d

\* elf_load, once segments can be loaded.
LEMMA LoadCounts ==
    ASSUME Usual, NEW img \in Images, NEW i, SoundInfo(i), i.state.ldr # "not_ready",
           Counted(img, i), NEW ch \in Chunk, ch.at = ch.offset \/ NotSections(img, ch),
           NEW out, out.da = ANY, out.noffset \in Nat, out.nlen \in Nat, out.nmemsize = 0,
           out.nlen = 0 \/ i.state.nseg = 0, NEW f
    PROVE  LoadMore(elf_load(img, i, i.state, ch, out, f), img, i)
<1>1. i.state.ldr \in {"ready_to_load", "post_data_load", "load_complete"}
  BY DEF SoundInfo, SoundState, LoadState, LdrStates
<1>2. CASE i.state.ldr = "ready_to_load"
  <2>1. elf_load(img, i, i.state, ch, out, f) = LoadSegment(img, i, out)
    BY <1>2 DEF elf_load
  <2> QED BY <1>2, <2>1, SegmentMore
<1>3. CASE i.state.ldr = "post_data_load"
  <2>1. elf_load(img, i, i.state, ch, out, f) = PostDataLoad(img, i, i.state, ch, out, f)
    BY <1>3 DEF elf_load
  <2> QED BY <1>3, <2>1, PostDataMore
<1>4. CASE i.state.ldr = "load_complete"
  <2>1. elf_load(img, i, i.state, ch, out, f) =
          [ret |-> i.state, info |-> i, da |-> out.da,
           noffset |-> out.noffset, nlen |-> out.nlen, nmemsize |-> out.nmemsize]
    BY <1>4 DEF elf_load
  <2>2. i.state.nseg = Len(img.segs) /\ DOMAIN img.segs = 1..Len(img.segs) /\ Len(img.segs) \in Nat
    BY <1>4, ImageAssumption DEF Counted, ElfImage
  <2> QED BY <1>4, <2>1, <2>2 DEF LoadMore, AsksNone
<1> QED BY <1>1, <1>2, <1>3, <1>4

\* A call of elf_load_header that asks for nothing has all headers.
HeaderAsks(h) == h.ret # Failed /\ h.nlen = 0 => h.ret.hdr = "complete"

\* So for whichever header it is at: what it asks for is never empty.
LEMMA HeaderLength ==
    ASSUME Usual, NEW img \in Images, NEW i, NEW st, Parsed(st, i), NEW ch \in Chunk,
           NEW out, NEW f
    PROVE  HeaderAsks(elf_load_header(img, i, st, ch, out, f))
<1> SUFFICES ASSUME NEW h, h = elf_load_header(img, i, st, ch, out, f) PROVE HeaderAsks(h)
  OBVIOUS
<1>1. /\ img \in ElfImage /\ img.ehdr \in Nat /\ img.shnum \in Nat /\ Len(img.segs) \in Nat \ {0}
      /\ img.str.size \in Nat \ {0}
  <2>1. img \in ElfImage
    BY ImageAssumption
  <2>2. img.ehdr \in Nat /\ img.shnum \in Nat /\ img.str.size \in Nat /\ img.segs \in Seq(Segment)
    BY <2>1 DEF ElfImage
  <2>3. Loads(img) /\ img.str.size > 0
    BY DEF Usual, ImagesFit, ImagesRegular
  <2>4. Len(img.segs) \in Nat /\ Len(img.segs) # 0
    BY <2>2, <2>3 DEF Loads
  <2> QED BY <2>1, <2>2, <2>3, <2>4
<1>2. \A j, o : j \in ElfInfo /\ j.state \in LoadState => HeaderAsks(LoadShstrtab(img, j, ch, o, f))
  <2> SUFFICES ASSUME NEW j, NEW o, j \in ElfInfo, j.state \in LoadState
               PROVE  HeaderAsks(LoadShstrtab(img, j, ch, o, f))
    OBVIOUS
  <2>1. [j EXCEPT !.shstrtab = Copy(ch), !.state.hdr = "complete"].state.hdr = "complete"
    BY DEF ElfInfo, LoadState
  <2> QED BY <1>1, <2>1 DEF LoadShstrtab, HeaderAsks, Negative, Need, Headers
<1>3. \A j, o : j \in ElfInfo /\ j.state \in LoadState => HeaderAsks(LoadShdrs(img, j, ch, o, f))
  <2> SUFFICES ASSUME NEW j, NEW o, j \in ElfInfo, j.state \in LoadState
               PROVE  HeaderAsks(LoadShdrs(img, j, ch, o, f))
    OBVIOUS
  <2> DEFINE k == [j EXCEPT !.shdrs = Copy(ch), !.state.hdr = "shstrtab"]
  <2>1. [j EXCEPT !.state.hdr = "complete"].state.hdr = "complete"
    BY DEF ElfInfo, LoadState
  <2>2. k \in ElfInfo /\ k.state \in LoadState
    BY DEF ElfInfo, LoadState, HdrStates, Copy, Table
  <2>3. HeaderAsks(LoadShstrtab(img, k, ch, o, f))
    BY <1>2, <2>2
  <2> HIDE DEF k
  <2>4. CASE img.shnum = 0
    BY <2>1, <2>4 DEF LoadShdrs, HeaderAsks, Headers
  <2>5. CASE img.shnum # 0 /\ ~Holds(ch, img.shoff, img.shnum)
    BY <1>1, <2>5 DEF LoadShdrs, HeaderAsks, Need
  <2>6. CASE img.shnum # 0 /\ Holds(ch, img.shoff, img.shnum) /\ f = "shdrs"
    BY <2>6 DEF LoadShdrs, HeaderAsks, Negative
  <2>7. CASE img.shnum # 0 /\ Holds(ch, img.shoff, img.shnum) /\ f # "shdrs"
    <3>1. LoadShdrs(img, j, ch, o, f) = LoadShstrtab(img, k, ch, o, f)
      BY <2>7 DEF LoadShdrs, k
    <3> QED BY <2>3, <3>1
  <2> QED BY <2>4, <2>5, <2>6, <2>7
<1>4. \A j, o : j \in ElfInfo /\ j.state \in LoadState => HeaderAsks(LoadPhdrs(img, j, ch, o, f))
  <2> SUFFICES ASSUME NEW j, NEW o, j \in ElfInfo, j.state \in LoadState
               PROVE  HeaderAsks(LoadPhdrs(img, j, ch, o, f))
    OBVIOUS
  <2> DEFINE k == [j EXCEPT !.phdrs = Copy(ch), !.state.hdr = "shdrs",
                            !.state.ldr = "ready_to_load"]
  <2>2. k \in ElfInfo /\ k.state \in LoadState
    BY DEF ElfInfo, LoadState, HdrStates, LdrStates, Copy, Table
  <2>3. HeaderAsks(LoadShdrs(img, k, ch, o, f))
    BY <1>3, <2>2
  <2> HIDE DEF k
  <2>4. CASE ~Holds(ch, img.phoff, Len(img.segs))
    BY <1>1, <2>4 DEF LoadPhdrs, HeaderAsks, Need
  <2>5. CASE Holds(ch, img.phoff, Len(img.segs)) /\ f = "phdrs"
    BY <2>5 DEF LoadPhdrs, HeaderAsks, Negative
  <2>6. CASE Holds(ch, img.phoff, Len(img.segs)) /\ f # "phdrs"
    <3>1. LoadPhdrs(img, j, ch, o, f) = LoadShdrs(img, k, ch, o, f)
      BY <2>6 DEF LoadPhdrs, k
    <3> QED BY <2>3, <3>1
  <2> QED BY <2>4, <2>5, <2>6
<1>5. CASE st = InitState /\ i = NoInfo
  <2>1. CASE ch.len < img.ehdr
    <3>1. h = [ret |-> InitState, info |-> i, noffset |-> 0, nlen |-> img.ehdr]
      BY <1>5, <2>1 DEF elf_load_header
    <3>2. img.ehdr # 0
      BY <1>1, <2>1 DEF Chunk
    <3> QED BY <3>1, <3>2 DEF HeaderAsks
  <2>2. CASE ~(ch.len < img.ehdr) /\ f = "info"
    <3>1. h.ret = Failed
      BY <1>5, <2>2 DEF elf_load_header, Negative
    <3> QED BY <3>1 DEF HeaderAsks
  <2>3. CASE ~(ch.len < img.ehdr) /\ f # "info"
    <3>1. NewInfo \in ElfInfo /\ NewInfo.state \in LoadState /\ NewInfo.state.hdr = "phdrs"
      BY ParserAssumption DEF NewInfo, InitState, ElfInfo, LoadState, HdrStates, LdrStates, Table
    <3>2. h = LoadPhdrs(img, NewInfo, ch, out, f)
      BY <1>5, <2>3, <3>1 DEF elf_load_header
    <3> QED BY <1>4, <3>1, <3>2
  <2> QED BY <2>1, <2>2, <2>3
<1>6. CASE SoundInfo(i) /\ st = i.state
  <2>1. /\ st # InitState /\ st.hdr \in {"phdrs", "shdrs", "shstrtab", "complete"}
        /\ i \in ElfInfo /\ i.state \in LoadState
    BY <1>6 DEF SoundInfo, SoundState, InitState, LoadState, HdrStates
  <2>2. CASE st.hdr = "phdrs"
    <3>1. h = LoadPhdrs(img, i, ch, out, f)
      BY <1>6, <2>1, <2>2 DEF elf_load_header
    <3> QED BY <1>4, <2>1, <3>1
  <2>3. CASE st.hdr = "shdrs"
    <3>1. h = LoadShdrs(img, i, ch, out, f)
      BY <1>6, <2>1, <2>3 DEF elf_load_header
    <3> QED BY <1>3, <2>1, <3>1
  <2>4. CASE st.hdr = "shstrtab"
    <3>1. h = LoadShstrtab(img, i, ch, out, f)
      BY <1>6, <2>1, <2>4 DEF elf_load_header
    <3> QED BY <1>2, <2>1, <3>1
  <2>5. CASE st.hdr = "complete"
    <3>1. h = [ret |-> st, info |-> i, noffset |-> out.noffset, nlen |-> out.nlen]
      BY <1>6, <2>1, <2>5 DEF elf_load_header
    <3> QED BY <2>5, <3>1 DEF HeaderAsks
  <2> QED BY <2>1, <2>2, <2>3, <2>4, <2>5
<1> QED BY <1>5, <1>6 DEF Parsed

\* Headers that are behind the non-blocking loader when it is called.
Behind == IF info = NoInfo THEN 0 ELSE info.state.nseg
Going(img, i) == i.state.ldr = "ready_to_load" => i.state.nseg < Len(img.segs)

AskMore(d) ==
    d.ret # Failed =>
      /\ d.info # NoInfo => Counted(image, d.info)
      /\ d.da # ANY => d.da \in Nat /\ d.nmemsize \in Nat /\ WithinTcm(d.da, d.nmemsize)
      /\ Streamable /\ (info # NoInfo => Going(image, info)) =>
           /\ d.nlen = 0 => d.ret.ldr = "load_complete"
           /\ d.info # NoInfo => Going(image, d.info)
           /\ \/ d.info # NoInfo /\ AsksNext(d, image, Behind)
              \/ d.da = ANY /\ (d.info # NoInfo => d.info.state.nseg = Behind)

\* A call of the non-blocking function skips no load segment either, and asks
\* for nothing only at the end of an image it can load.
LEMMA AskCounts ==
    ASSUME Usual, ParseInv, pc = "nb_call", info # NoInfo => Counted(image, info), NEW f
    PROVE  AskMore(NoblockSegment(f))
<1> DEFINE st == IF info = NoInfo THEN InitState ELSE info.state
           out == [next EXCEPT !.da = ANY, !.nlen = 0, !.nmemsize = 0]
           h == NoblockHeaders(f)
           data == /\ h.ret # Failed
                   /\ h.nlen = 0 \/ h.ret.ldr = "ready_to_load"
                   /\ h.ret.ldr \in {"ready_to_load", "post_data_load"}
           hout == [da |-> ANY, noffset |-> h.noffset, nlen |-> h.nlen, nmemsize |-> 0]
<1>0. /\ image \in Images /\ image \in ElfImage /\ chunk \in Chunk /\ next \in Request
      /\ info = NoInfo \/ SoundInfo(info)
  BY ImageAssumption DEF ParseInv
<1>n. \A i : SoundInfo(i) => i # NoInfo /\ i.state.nseg \in Nat /\ i.state.ldr \in LdrStates
  BY ParserAssumption DEF SoundInfo, SoundState, LoadState
<1>l. /\ Len(image.segs) \in Nat \ {0} /\ DOMAIN image.segs = 1..Len(image.segs)
  <2>1. image.segs \in Seq(Segment) /\ Loads(image)
    BY <1>0 DEF ElfImage, Usual, ImagesFit
  <2> QED BY <2>1 DEF Loads
<1>1. out.noffset \in Nat /\ out.nlen = 0
  BY <1>0 DEF Request
<1>2. Parsed(st, info)
  BY <1>0 DEF Parsed
<1>3. /\ chunk.at = chunk.offset \/ NotSections(image, chunk)
      /\ chunk.at = chunk.offset \/ (st # InitState /\ RightBytes(image, info, chunk))
  <2>1. CASE chunk.at = chunk.offset
    BY <2>1
  <2>2. CASE SegmentAt(chunk.offset, chunk.len)
    <3>1. NotSections(image, chunk)
      BY <1>0, <2>2, ApartBytes DEF SegmentAt
    <3>2. st = info.state /\ SoundInfo(info) /\ info.state.ldr # "not_ready"
      BY <1>0, <2>2 DEF SegmentAt
    <3>3. st # InitState /\ info.state.hdr # "phdrs"
      BY <3>2 DEF SoundInfo, SoundState, InitState
    <3> QED BY <3>1, <3>3 DEF RightBytes
  <2> QED BY <2>1, <2>2 DEF ParseInv
<1>i. InitState.ldr = "not_ready" /\ InitState.nseg = 0 /\ InitState.hdr = "init"
  BY DEF InitState
<1>s. st.nseg = Behind
  BY <1>i DEF Behind
<1> HIDE DEF st, out
<1>4. h.ret # Failed =>
        /\ Parsed(h.ret, h.info) /\ h.noffset \in Nat /\ h.nlen \in Nat
        /\ h.ret.ldr = "ready_to_load" => h.nlen = 0 \/ h.ret.nseg = 0
        /\ h.ret.nseg = Behind
        /\ h.nlen = 0 => h.ret.hdr = "complete" \/ h.ret.ldr \in {"ready_to_load", "load_complete"}
        /\ h.ret = st \/ h.ret.ldr \in {"not_ready", "ready_to_load"} \/ h.ret.ldr = st.ldr
        /\ h.ret.ldr = "ready_to_load" => h.ret.nseg = 0 \/ h.ret = st
  <2>1. CASE st.ldr \in {"ready_to_load", "load_complete"}
    <3>1. h = [ret |-> st, info |-> info, noffset |-> out.noffset, nlen |-> 0]
      BY <2>1 DEF NoblockHeaders, st, out
    <3>2. h.ret = st /\ h.info = info /\ h.noffset = out.noffset /\ h.nlen = 0
      BY <3>1
    <3> HIDE DEF h
    <3> QED BY <1>1, <1>2, <1>s, <2>1, <3>2
  <2>2. CASE st.ldr \notin {"ready_to_load", "load_complete"}
    <3>1. h = elf_load_header(image, info, st, chunk, out, f)
      BY <2>2 DEF NoblockHeaders, st, out
    <3>2. HeaderOk(h, st, info)
      BY <1>0, <1>1, <1>2, <1>3, <3>1, HeaderCall
    <3>a. HeaderAsks(h)
      BY <1>0, <1>2, <3>1, HeaderLength
    <3> HIDE DEF h
    <3>3. ASSUME h.ret # Failed
          PROVE  /\ h.ret.nseg = Behind
                 /\ h.ret.ldr \in {"not_ready", "ready_to_load", st.ldr}
                 /\ h.ret.ldr = "ready_to_load" => h.ret.nseg = 0
      <4>1. CASE st = InitState
        <5>1. \/ h.ret = InitState \/ HeaderResult(h, "not_ready", 0)
              \/ HeaderResult(h, "ready_to_load", 0)
          BY <3>2, <3>3, <4>1 DEF HeaderOk
        <5> QED BY <1>i, <1>s, <3>3, <4>1, <5>1 DEF HeaderResult
      <4>2. CASE st # InitState
        <5>1. SoundInfo(info) /\ st = info.state
          BY <1>2, <4>2 DEF Parsed
        <5>2. CASE st.ldr = "not_ready"
          <6>1. st.nseg = 0
            BY <5>1, <5>2 DEF SoundInfo, SoundState
          <6>2. \/ h.ret = InitState \/ HeaderResult(h, "not_ready", 0)
                \/ HeaderResult(h, "ready_to_load", 0)
            BY <3>2, <3>3, <5>1, <5>2, <6>1 DEF HeaderOk
          <6> QED BY <1>i, <1>s, <3>3, <6>1, <6>2 DEF HeaderResult
        <5>3. CASE st.ldr # "not_ready"
          <6>1. HeaderResult(h, st.ldr, st.nseg)
            BY <3>2, <3>3, <4>2, <5>1, <5>3 DEF HeaderOk
          <6> QED BY <1>s, <2>2, <3>3, <6>1 DEF HeaderResult
        <5> QED BY <5>2, <5>3
      <4> QED BY <4>1, <4>2
    <3> QED BY <3>2, <3>3, <3>a DEF HeaderOk, HeaderAsks
  <2> QED BY <2>1, <2>2
<1>5. NoblockSegment(f) =
        IF data THEN elf_load(image, h.info, h.ret, chunk, hout, f)
        ELSE [ret |-> h.ret, info |-> h.info, da |-> ANY, noffset |-> h.noffset,
              nlen |-> h.nlen, nmemsize |-> 0]
  BY DEF NoblockSegment
<1>6. hout.da = ANY /\ hout.noffset = h.noffset /\ hout.nlen = h.nlen /\ hout.nmemsize = 0
  OBVIOUS
<1> HIDE DEF h, hout
<1>7. ASSUME h.ret # Failed, h.info # NoInfo
      PROVE  /\ SoundInfo(h.info) /\ h.ret = h.info.state /\ Counted(image, h.info)
             /\ (Streamable /\ (info # NoInfo => Going(image, info)) => Going(image, h.info))
  <2>1. SoundInfo(h.info) /\ h.ret = h.info.state
    BY <1>4, <1>7 DEF Parsed
  <2>2. st = InitState \/ (info # NoInfo /\ st = info.state)
    BY DEF st
  <2>3. Counted(image, h.info)
    <3>1. h.ret.ldr \in {"not_ready", "ready_to_load", st.ldr}
      BY <1>4, <1>7
    <3>2. Behind \in Nat /\ Behind <= Len(image.segs)
      BY <1>0, <1>l, <1>n DEF Behind, Counted
    <3>3. st.ldr \in {"post_data_load", "load_complete"} => Behind = Len(image.segs)
      BY <1>i, <1>s, <2>2 DEF Counted
    <3> QED BY <1>4, <1>7, <2>1, <3>1, <3>2, <3>3 DEF Counted
  <2>4. Streamable /\ (info # NoInfo => Going(image, info)) => Going(image, h.info)
    BY <1>4, <1>7, <1>i, <1>l, <2>1, <2>2 DEF Going
  <2> QED BY <2>1, <2>3, <2>4
<1>8. CASE data
  <2>0. h.ret # InitState
    BY <1>8, <1>i
  <2>1. h.info # NoInfo
    BY <1>4, <1>8, <1>n, <2>0 DEF Parsed
  <2>2. /\ SoundInfo(h.info) /\ h.ret = h.info.state /\ Counted(image, h.info)
        /\ h.info.state.ldr # "not_ready"
    BY <1>7, <1>8, <2>1
  <2>3. hout.nlen = 0 \/ h.info.state.nseg = 0
    BY <1>4, <1>6, <1>8, <2>2
  <2> DEFINE d == elf_load(image, h.info, h.info.state, chunk, hout, f)
  <2>4. LoadMore(d, image, h.info)
    BY <1>0, <1>3, <1>4, <1>6, <1>8, <2>2, <2>3, LoadCounts
  <2>4a. LoadOk(d, image)
    BY <1>0, <1>3, <1>4, <1>6, <1>8, <2>2, <2>3, LoadCall
  <2>5. NoblockSegment(f) = d
    BY <1>5, <1>8, <2>2
  <2> HIDE DEF d
  <2>6. ASSUME d.ret # Failed, Streamable, info # NoInfo => Going(image, info)
        PROVE  /\ d.nlen = 0 => d.ret.ldr = "load_complete"
               /\ d.info # NoInfo => Going(image, d.info)
               /\ \/ d.info # NoInfo /\ AsksNext(d, image, Behind)
                  \/ d.da = ANY /\ (d.info # NoInfo => d.info.state.nseg = Behind)
    <3>1. Going(image, h.info) /\ h.info.state.nseg = Behind
      BY <1>4, <1>7, <1>8, <2>1, <2>2, <2>6
    <3>2. CASE h.ret.ldr = "ready_to_load"
      <4>1. ~AsksNone(d, image, Behind)
        <5>1. Behind < Len(image.segs) /\ image.segs[Len(image.segs)].load
          BY <2>2, <2>6, <3>1, <3>2 DEF Going, Streamable
        <5> QED BY <1>l, <5>1 DEF AsksNone
      <4>2. AsksNext(d, image, Behind)
        BY <2>4, <2>6, <3>1, <4>1 DEF LoadMore
      <4>3. d.nlen # 0
        <5>1. PICK k \in DOMAIN image.segs : IsSegment(d, image.segs[k])
          BY <4>2 DEF AsksNext
        <5>2. image.segs[k].filesz > 0 /\ image.segs[k] \in Segment
          BY <1>0, <2>6, <5>1 DEF Streamable, IsSegment, ElfImage
        <5> QED BY <5>1, <5>2 DEF IsSegment, Segment
      <4>4. d.info # NoInfo /\ Going(image, d.info)
        BY <1>n, <2>4a, <2>6, <4>2 DEF LoadOk, AsksNext, Going
      <4> QED BY <4>2, <4>3, <4>4
    <3>3. CASE h.ret.ldr = "post_data_load"
      <4>1. h.nlen = 0 /\ h.ret.hdr = "complete"
        BY <1>4, <1>8, <3>3
      <4>2. d.ret.ldr = "load_complete"
        BY <2>2, <2>4, <2>6, <3>3, <4>1 DEF LoadMore
      <4>3. Behind = Len(image.segs)
        BY <2>2, <3>1, <3>3 DEF Counted
      <4>4. ~AsksNext(d, image, Behind)
        BY <1>l, <4>3 DEF AsksNext
      <4>5. SoundInfo(d.info) /\ d.ret = d.info.state /\ Counted(image, d.info)
        BY <2>4, <2>4a, <2>6 DEF LoadMore, LoadOk
      <4>6. d.info.state.nseg = Behind
        BY <4>2, <4>3, <4>5 DEF Counted
      <4>7. d.da = ANY
        <5>1. d = PostDataLoad(image, h.info, h.info.state, chunk, hout, f)
          BY <2>2, <3>3 DEF elf_load, d
        <5> QED BY <1>6, <5>1 DEF PostDataLoad
      <4>8. Going(image, d.info)
        BY <4>2, <4>5 DEF Going
      <4> QED BY <4>2, <4>6, <4>7, <4>8
    <3> QED BY <1>8, <3>2, <3>3
  <2>7. AskMore(d)
    BY <2>4, <2>6 DEF AskMore, LoadMore
  <2> QED BY <2>5, <2>7
<1>9. CASE ~data
  <2> DEFINE d == NoblockSegment(f)
  <2>1. d = [ret |-> h.ret, info |-> h.info, da |-> ANY, noffset |-> h.noffset,
             nlen |-> h.nlen, nmemsize |-> 0]
    BY <1>5, <1>9, Zenon
  <2>2. d.ret = h.ret /\ d.info = h.info /\ d.da = ANY /\ d.nlen = h.nlen
    BY <2>1
  <2> HIDE DEF d
  <2>3. ASSUME h.ret # Failed, h.nlen = 0 PROVE h.ret.ldr = "load_complete"
    <3>1. h.ret.ldr \notin {"ready_to_load", "post_data_load"}
      BY <1>9, <2>3
    <3>2. CASE h.ret.hdr = "complete"
      <4>1. h.ret # InitState
        BY <1>i, <3>2
      <4>2. SoundState(h.ret)
        BY <1>4, <2>3, <4>1 DEF Parsed, SoundInfo
      <4> QED BY <3>1, <3>2, <4>2 DEF SoundState, LoadState, LdrStates
    <3> QED BY <1>4, <2>3, <3>1, <3>2
  <2>4. AskMore(d)
    BY <1>4, <1>7, <2>2, <2>3 DEF AskMore
  <2> QED BY <2>4 DEF d
<1> QED BY <1>8, <1>9

(***************************************************************************)
(* The inductive invariant: the segments behind the loader are in place.   *)
(***************************************************************************)
\* remoteproc_load.
BlockInv ==
    /\ pc = "header" /\ info # NoInfo =>
         info.state.nseg = 0 /\ info.state.ldr \in {"not_ready", "ready_to_load"}
    /\ pc \in {"locate", "data"} =>
         Counted(image, info) /\ PlacedTo(tmem, image, info.state.nseg)
    /\ pc \in {"finish", "update"} => PlacedTo(tmem, image, Len(image.segs)) /\ info # NoInfo
    /\ table # "none" => pc \in {"data", "finish", "update"} /\ rsc.size > 0
    /\ pc = "load_ret" /\ ret = 0 => Complete

\* remoteproc_load_noblock, as long as nothing fails: the segment that is
\* counted already is on its way.
Streamed ==
    /\ Going(image, info)
    /\ \/ PlacedTo(tmem, image, info.state.nseg) /\ (pc = "nb_call" \/ next.da = ANY)
       \/ /\ pc = "nb_store" /\ next.da # ANY /\ info.state.nseg \in DOMAIN image.segs
          /\ IsSegment(next, image.segs[info.state.nseg])
          /\ PlacedTo(tmem, image, info.state.nseg - 1)
StreamInv ==
    pc \in {"nb_call", "nb_store"} /\ info # NoInfo =>
      Counted(image, info) /\ (faults = 0 /\ Streamable => Streamed)

StartInv ==
    /\ pc \in {"start", "stop"} => (mode = "block" \/ (faults = 0 /\ Streamable) => Complete)
    /\ pc = "stop" => hw = mode

PlaceInv == faults \in Nat /\ Straight(rproc.mems) /\ BlockInv /\ StreamInv /\ StartInv

\* At the start there is nothing to say.
LEMMA PlaceInit == Init => PlaceInv
BY DEF Init, PlaceInv, Straight, BlockInv, StreamInv, StartInv

\* A step to a place where nothing is being loaded and nothing runs.
Busy == {"header", "locate", "data", "finish", "update", "load_ret", "nb_call", "nb_store",
         "start", "stop"}
LEMMA PlaceFrame ==
    ASSUME faults' \in Nat, Straight(rproc.mems)', table' = "none", pc' \notin Busy
    PROVE  PlaceInv'
BY DEF PlaceInv, BlockInv, StreamInv, StartInv, Busy

\* Failures are only counted up.
LEMMA FaultsGrow ==
    ASSUME faults \in Nat, NEW f, Outcome(f)
    PROVE  faults' \in Nat /\ (faults' = 0 => faults = 0 /\ f = "none")
BY DEF Outcome

\* An error exit of remoteproc_load.
LEMMA PlaceFails ==
    ASSUME faults' \in Nat, Straight(rproc.mems)', NEW r, FailLoad(r), r # 0
    PROVE  PlaceInv'
<1>1. table' = "none" /\ info' = NoInfo /\ ret' = r /\ pc' \in {"crash", "load_ret"}
  BY DEF FailLoad
<1> QED BY <1>1 DEF PlaceInv, BlockInv, StreamInv, StartInv

\* What the store delivers when it delivers all or nothing.
LEMMA AllOrNothing ==
    ASSUME Usual, NEW n, NEW f, NEW r \in Delivered(n, f)
    PROVE  (f = "none" /\ r = n) \/ (f # "none" /\ r = -1)
BY DEF Delivered, Usual

\* An error exit with an error code or with what the store delivered of n units.
FailsFor(n) == \E r : FailLoad(r) /\ (r = -1 \/ (\E g : r \in Delivered(n, g) /\ r < n))

\* The value it returns is not taken for success.
LEMMA FailsNegative ==
    ASSUME Usual, faults' \in Nat, Straight(rproc.mems)', NEW n, FailsFor(n)
    PROVE  PlaceInv'
<1>1. PICK r : FailLoad(r) /\ (r = -1 \/ (\E g : r \in Delivered(n, g) /\ r < n))
  BY DEF FailsFor
<1>2. r # 0
  <2>1. CASE r = -1
    BY <2>1
  <2>2. CASE \E g : r \in Delivered(n, g) /\ r < n
    <3>1. PICK g : r \in Delivered(n, g) /\ r < n
      BY <2>2
    <3>2. r = n \/ r = -1
      BY <3>1, AllOrNothing
    <3>3. CASE r = n
      BY <3>1, <3>3
    <3> QED BY <3>2, <3>3
  <2> QED BY <1>1, <2>1, <2>2
<1> QED BY <1>1, <1>2, PlaceFails

\* Complete stays so while neither memory nor entry point changes.
LEMMA CompleteFrame ==
    ASSUME image \in Images, UNCHANGED <<image, tmem>>, rproc'.bootaddr = rproc.bootaddr, Complete
    PROVE  Complete'
<1>1. \A s : SegmentInPlace(s) => SegmentInPlace(s)'
  BY DEF SegmentInPlace, InTable, TableUnit
<1> QED BY <1>1 DEF Complete

\* The steps of the program around the two load functions.
LEMMA PlaceProgram ==
    ASSUME ParseInv, MemInv, FlowInv, PlaceInv,
           \/ Configure \/ LoadReturned \/ NoblockRefused \/ Start \/ Stop \/ Shutdown \/ Remove
    PROVE  PlaceInv'
<1>0. /\ image \in Images /\ rproc \in Rproc /\ Straight(rproc.mems) /\ faults \in Nat
      /\ mode \in {"block", "noblock"}
      /\ table # "none" => pc \in {"data", "finish", "update"}
  BY DEF ParseInv, MemInv, PlaceInv, BlockInv, FlowInv
<1>1. CASE Configure \/ NoblockRefused \/ Stop \/ Remove
  <2>1. /\ UNCHANGED <<table, faults>> /\ table = "none" /\ rproc'.mems = rproc.mems
        /\ pc' \notin Busy
    BY <1>0, <1>1 DEF Configure, NoblockRefused, Stop, Remove, parse, Rproc, Busy
  <2>2. Straight(rproc.mems)'
    BY <1>0, <2>1 DEF Straight
  <2> QED BY <1>0, <2>1, <2>2, PlaceFrame
<1>2. CASE LoadReturned
  <2>1. /\ UNCHANGED <<image, tmem, rproc, table, faults>> /\ table = "none" /\ pc = "load_ret"
        /\ pc' \in {"start", "cleanup", "config"} /\ (pc' = "start" => ret = 0)
    BY <1>0, <1>2 DEF LoadReturned, input, target, parse
  <2>2. pc' = "start" => Complete'
    BY <1>0, <2>1, CompleteFrame DEF PlaceInv, BlockInv
  <2>3. Straight(rproc.mems)'
    BY <1>0, <2>1 DEF Straight
  <2> QED BY <1>0, <2>1, <2>2, <2>3 DEF PlaceInv, BlockInv, StreamInv, StartInv
<1>3. CASE Start
  <2>1. PICK f : LET s == remoteproc_start(rproc.state, IF f = "none" THEN Ok ELSE Err)
                 IN /\ Outcome(f)
                    /\ rproc' = [rproc EXCEPT !.state = s.state]
                    /\ hw' = IF "start" \in s.calls /\ s.ret = Ok THEN mode ELSE hw
                    /\ pc' = IF s.ret = Ok THEN "stop" ELSE "cleanup"
    BY <1>3, Zenon DEF Start
  <2> DEFINE s == remoteproc_start(rproc.state, IF f = "none" THEN Ok ELSE Err)
  <2>2. s.ret = Ok => "start" \in s.calls
    BY DEF remoteproc_start, Result, Ok, Err
  <2> HIDE DEF s
  <2>3. /\ rproc' = [rproc EXCEPT !.state = s.state] /\ pc' \in {"stop", "cleanup"}
        /\ pc' = "stop" => hw' = mode
    BY <2>1, <2>2 DEF s
  <2>4. UNCHANGED <<image, mode, tmem, table>> /\ table = "none" /\ pc = "start"
    BY <1>0, <1>3 DEF Start, input, parse
  <2>5. rproc'.mems = rproc.mems /\ rproc'.bootaddr = rproc.bootaddr
    BY <1>0, <2>3 DEF Rproc
  <2>6. faults' \in Nat /\ (faults' = 0 => faults = 0)
    BY <1>0, <2>1, FaultsGrow
  <2>7. Complete => Complete'
    BY <1>0, <2>4, <2>5, CompleteFrame
  <2>8. StartInv'
    <3>1. Streamable' <=> Streamable
      BY <2>4 DEF Streamable
    <3> QED BY <2>3, <2>4, <2>6, <2>7, <3>1 DEF PlaceInv, StartInv
  <2>9. Straight(rproc.mems)'
    BY <1>0, <2>5 DEF Straight
  <2> QED BY <2>3, <2>4, <2>6, <2>8, <2>9 DEF PlaceInv, BlockInv, StreamInv
<1>4. CASE Shutdown
  <2>1. UNCHANGED table /\ table = "none" /\ pc' \notin Busy
    BY <1>0, <1>4 DEF Shutdown, parse, Busy
  <2>a. \A r : remoteproc_shutdown(rproc.state, Ok, r).state \in RprocStates
    BY <1>0 DEF remoteproc_shutdown, Result, RprocStates, Rproc
  <2>2. PICK st \in RprocStates, M \in {<<>>, rproc.mems} :
          rproc' = [rproc EXCEPT !.state = st, !.mems = M]
    BY <1>4, <2>a, Zenon DEF Shutdown
  <2>3. faults' \in Nat
    BY <1>0, <1>4, FaultsGrow DEF Shutdown
  <2>4. rproc'.mems = M
    BY <1>0, <2>2 DEF Rproc
  <2>5. Straight(rproc.mems)'
    BY <1>0, <2>2, <2>4 DEF Straight
  <2> QED BY <2>1, <2>3, <2>5, PlaceFrame
<1> QED BY <1>1, <1>2, <1>3, <1>4

\* The image is opened.
LEMMA PlaceOpen ==
    ASSUME MemInv, PlaceInv, OpenImage \/ NoblockOpen
    PROVE  PlaceInv'
<1>0. /\ rproc \in Rproc /\ Straight(rproc.mems) /\ faults \in Nat
      /\ table # "none" => pc \in {"data", "finish", "update"}
  BY DEF MemInv, PlaceInv, BlockInv
<1>1. rproc' \in {rproc, [rproc EXCEPT !.loader = TRUE]} /\ info' = NoInfo
      /\ (NoFault \/ Outcome("open"))
  BY DEF OpenImage, NoblockOpen
<1>2. rproc'.mems = rproc.mems
  BY <1>0, <1>1 DEF Rproc
<1>3. Straight(rproc.mems)'
  BY <1>0, <1>2 DEF Straight
<1>4. faults' \in Nat
  BY <1>0, <1>1, FaultsGrow DEF NoFault
<1>5. table' = "none" /\ pc' \in {"load_ret", "header", "cleanup", "nb_call"}
      /\ (pc' = "load_ret" => ret' = -1)
  BY <1>0 DEF OpenImage, NoblockOpen
<1> QED BY <1>1, <1>3, <1>4, <1>5 DEF PlaceInv, BlockInv, StreamInv, StartInv

\* One turn of the loop over the headers.
LEMMA PlaceHeader ==
    ASSUME Usual, ParseInv, PlaceInv, LoadHeader
    PROVE  PlaceInv'
<1>0. /\ image \in Images /\ image \in ElfImage /\ chunk \in Chunk /\ chunk.at = chunk.offset
      /\ pc = "header" /\ Parsed(last, info) /\ next \in Request /\ faults \in Nat
      /\ next.noffset \in Nat /\ next.nlen \in Nat
      /\ Straight(rproc.mems) /\ table = "none"
  BY ImageAssumption DEF LoadHeader, ParseInv, PlaceInv, BlockInv, Request
<1>1. UNCHANGED <<image, rproc, tmem>> /\ Straight(rproc.mems)'
  BY <1>0 DEF LoadHeader, input, target, Straight
<1>2. PICK f : LET h == elf_load_header(image, info, last, chunk, next, f)
               IN  /\ Outcome(f)
                   /\ \/ FailsFor(h.nlen)
                      \/ /\ h.ret # Failed /\ h.ret.ldr = "ready_to_load"
                         /\ pc' = "locate" /\ info' = h.info /\ UNCHANGED table
                      \/ h.ret # Failed /\ info' = h.info /\ UNCHANGED <<pc, table>>
  BY Zenon DEF LoadHeader, FailsFor
<1> DEFINE h == elf_load_header(image, info, last, chunk, next, f)
<1>3. HeaderOk(h, last, info)
  BY <1>0, HeaderCall
<1>4. \/ FailsFor(h.nlen)
      \/ /\ h.ret # Failed /\ h.ret.ldr = "ready_to_load"
         /\ pc' = "locate" /\ info' = h.info /\ UNCHANGED table
      \/ h.ret # Failed /\ info' = h.info /\ UNCHANGED <<pc, table>>
  BY <1>2, Zenon
<1> HIDE DEF h
<1>5. faults' \in Nat
  BY <1>0, <1>2, FaultsGrow
<1>6. ASSUME h.ret # Failed, h.info # NoInfo
      PROVE  /\ SoundInfo(h.info) /\ h.ret = h.info.state /\ h.info.state.nseg = 0
             /\ h.info.state.ldr \in {"not_ready", "ready_to_load"}
  <2>1. SoundInfo(h.info) /\ h.ret = h.info.state
    BY <1>3, <1>6 DEF HeaderOk, Parsed
  <2>2. h.ret # InitState
    BY <2>1 DEF SoundInfo, SoundState, InitState
  <2>3. last # InitState => info # NoInfo
    BY <1>0, ParserAssumption DEF Parsed, SoundInfo
  <2>4. info # NoInfo => info.state.nseg = 0 /\ info.state.ldr \in {"not_ready", "ready_to_load"}
    BY <1>0 DEF PlaceInv, BlockInv
  <2> QED BY <1>3, <1>6, <2>1, <2>2, <2>3, <2>4 DEF HeaderOk, HeaderResult
<1>7. CASE FailsFor(h.nlen)
  BY <1>1, <1>5, <1>7, FailsNegative
<1>8. CASE /\ h.ret # Failed /\ h.ret.ldr = "ready_to_load"
           /\ pc' = "locate" /\ info' = h.info /\ UNCHANGED table
  <2>1. h.info # NoInfo
    BY <1>3, <1>8, ParserAssumption DEF HeaderOk, Parsed, InitState, SoundInfo
  <2>2. h.info.state.nseg = 0 /\ h.info.state.ldr = "ready_to_load"
    BY <1>6, <1>8, <2>1
  <2>3. Counted(image, info)' /\ PlacedTo(tmem, image, info.state.nseg)'
    <3>1. Len(image.segs) \in Nat /\ DOMAIN image.segs = 1..Len(image.segs)
      BY <1>0 DEF ElfImage
    <3>2. Counted(image, h.info)
      BY <2>2, <3>1 DEF Counted
    <3>3. PlacedTo(tmem, image, 0)
      BY <3>1 DEF PlacedTo
    <3> QED BY <1>1, <1>8, <2>2, <3>2, <3>3 DEF Counted, PlacedTo
  <2> QED BY <1>0, <1>1, <1>5, <1>8, <2>3 DEF PlaceInv, BlockInv, StreamInv, StartInv
<1>9. CASE h.ret # Failed /\ info' = h.info /\ UNCHANGED <<pc, table>>
  BY <1>0, <1>1, <1>5, <1>6, <1>9 DEF PlaceInv, BlockInv, StreamInv, StartInv
<1> QED BY <1>4, <1>7, <1>8, <1>9

\* The table is looked for.
LEMMA PlaceLocate ==
    ASSUME ParseInv, PlaceInv, LocateTable \/ LocateLate
    PROVE  PlaceInv'
<1>0. Straight(rproc.mems) /\ faults \in Nat /\ rsc \in Section
  BY DEF PlaceInv, ParseInv
<1>1. UNCHANGED <<image, rproc, tmem, info>> /\ Straight(rproc.mems)'
  BY <1>0 DEF LocateTable, LocateLate, input, target, Straight
<1>2. faults' \in Nat
  BY <1>0, FaultsGrow DEF LocateTable, LocateLate, NoFault
<1>4. CASE LocateTable
  <2>1. PICK f : GetTable(f)
    BY <1>4 DEF LocateTable
  <2>2. pc = "locate" /\ pc' = "data"
    BY <1>4 DEF LocateTable
  <2>3. table' # "none" => rsc'.size > 0
    BY <2>1, <2>2 DEF GetTable, PlaceInv, BlockInv
  <2>4. Counted(image, info)' /\ PlacedTo(tmem, image, info.state.nseg)'
    BY <1>1, <2>2 DEF PlaceInv, BlockInv, Counted, PlacedTo
  <2> QED BY <1>1, <1>2, <2>2, <2>3, <2>4 DEF PlaceInv, BlockInv, StreamInv, StartInv
<1>5. CASE LocateLate
  <2>1. pc = "finish" /\ pc' = "update"
    BY <1>5 DEF LocateLate
  <2>2. table' # "none" => rsc'.size > 0
    <3>1. CASE rsc.size = 0
      <4>1. PICK f : GetTable(f)
        BY <1>5, <3>1 DEF LocateLate
      <4>2. table = "none"
        BY <3>1 DEF PlaceInv, BlockInv
      <4> QED BY <4>1, <4>2 DEF GetTable
    <3>2. CASE rsc.size # 0
      BY <1>0, <1>5, <3>2 DEF LocateLate, Section
    <3> QED BY <3>1, <3>2
  <2>3. PlacedTo(tmem, image, Len(image.segs))' /\ info' # NoInfo
    BY <1>1, <2>1 DEF PlaceInv, BlockInv, PlacedTo
  <2> QED BY <1>1, <1>2, <2>1, <2>2, <2>3 DEF PlaceInv, BlockInv, StreamInv, StartInv
<1> QED BY <1>4, <1>5

\* Complete in the next state.
LEMMA CompleteNext ==
    ASSUME image \in Images, image' = image, PlacedTo(tmem', image, Len(image.segs)),
           rproc'.bootaddr = image.entry
    PROVE  Complete'
<1>1. \A s : InPlace(tmem', image, s) => SegmentInPlace(s)'
  <2> SUFFICES ASSUME NEW s, InPlace(tmem', image, s) PROVE SegmentInPlace(s)'
    OBVIOUS
  <2>1. r5_rproc_mmap(s.da, s.memsz).pa = Pa(s.da)
    BY DEF r5_rproc_mmap, Pa
  <2> QED BY <2>1 DEF SegmentInPlace, InPlace, UnitInPlace, InTable, TableUnit
<1>2. \A i \in DOMAIN image.segs : i <= Len(image.segs)
  <2>1. image.segs \in Seq(Segment)
    BY ImageAssumption DEF ElfImage
  <2> QED BY <2>1
<1> QED BY <1>1, <1>2 DEF Complete, PlacedTo

\* The next load segment, written, is in place with the ones before it.
LEMMA SegmentWritten ==
    ASSUME Usual, NEW img \in Images, NEW k \in DOMAIN img.segs, img.segs[k].load, NEW n \in Int,
           \A j \in DOMAIN img.segs : n < j /\ j < k => ~img.segs[j].load,
           NEW m, DOMAIN m = Cells, PlacedTo(m, img, n),
           NEW pa \in Nat, img.segs[k].memsz > 0 => pa = Pa(img.segs[k].da)
    PROVE  PlacedTo(Written(m, pa, img.segs[k].offset, img.segs[k].filesz, img.segs[k].memsz),
                    img, k)
<1> DEFINE s == img.segs[k]
           w == Written(m, pa, s.offset, s.filesz, s.memsz)
<1>1. Placeable(s) /\ s.filesz \in Nat /\ s.memsz \in Nat /\ s.filesz <= s.memsz
  BY SegmentPlaceable DEF Usual, Placeable, Segment
<1>2. DOMAIN img.segs \subseteq Nat
  <2>1. img.segs \in Seq(Segment)
    BY ImageAssumption DEF ElfImage
  <2> QED BY <2>1
<1> SUFFICES ASSUME NEW i \in DOMAIN img.segs, i <= k, img.segs[i].load
             PROVE  InPlace(w, img, img.segs[i])
  BY DEF PlacedTo
<1>3. CASE i = k
  BY <1>1, <1>3, WritePlaces
<1>4. CASE i # k
  <2>1. i <= n
    BY <1>2, <1>4
  <2>2. InPlace(m, img, img.segs[i])
    BY <2>1 DEF PlacedTo
  <2>3. Placeable(img.segs[i]) /\ ~Overlap(s, img.segs[i])
    BY <1>4, SegmentPlaceable DEF Usual, ImagesRegular
  <2> HIDE DEF s
  <2>4. s.memsz <= s.memsz
    BY <1>1
  <2> QED BY <1>1, <2>2, <2>3, <2>4, WriteKeeps DEF s
<1> QED BY <1>3, <1>4

\* Writing nothing changes nothing.
LEMMA NothingWritten ==
    ASSUME Usual, NEW img \in Images, NEW n, NEW m, DOMAIN m = Cells, PlacedTo(m, img, n),
           NEW pa \in Nat, NEW off
    PROVE  PlacedTo(Written(m, pa, off, 0, 0), img, n)
<1> DEFINE w == Written(m, pa, off, 0, 0)
<1>1. \A p \in Cells : w[p] = m[p]
  <2>1. \A p \in Cells : p \in Int
    BY ImageAssumption DEF Cells
  <2>2. \A p \in Cells : ~(p \in pa..(pa + 0 - 1)) /\ ~(p \in (pa + 0)..(pa + 0 - 1))
    BY <2>1
  <2> QED BY <2>2 DEF Written
<1> HIDE DEF w
<1>2. ASSUME NEW i \in DOMAIN img.segs, i <= n, img.segs[i].load
      PROVE  InPlace(w, img, img.segs[i])
  <2>1. InPlace(m, img, img.segs[i]) /\ Placeable(img.segs[i])
    BY <1>2, SegmentPlaceable DEF PlacedTo, Usual
  <2>2. \A k \in 0..(img.segs[i].memsz - 1) : Pa(img.segs[i].da) + k \in Cells
    BY <2>1, UnitCells
  <2> QED BY <1>1, <2>1, <2>2 DEF InPlace
<1> QED BY <1>2 DEF PlacedTo, w

\* The table, written, leaves the segments in place.
LEMMA TableWritten ==
    ASSUME Usual, image \in Images, NEW n, NEW m, DOMAIN m = Cells, PlacedTo(m, image, n),
           NEW pa \in Nat, image.rsc.size > 0 => pa = Pa(image.rsc.da)
    PROVE  PlacedTo(TableAt(m, pa, image.rsc), image, n)
<1> SUFFICES ASSUME NEW i \in DOMAIN image.segs, i <= n, image.segs[i].load
             PROVE  InPlace(TableAt(m, pa, image.rsc), image, image.segs[i])
  BY DEF PlacedTo
<1>1. Placeable(image.segs[i]) /\ TableInside(image, image.segs[i])
  BY SegmentPlaceable DEF Usual
<1>2. image.rsc.da + image.rsc.size <= Top /\ WithinTcm(image.rsc.da, image.rsc.size)
  BY DEF Usual, ImagesFit, ImagesRegular
<1>3. InPlace(m, image, image.segs[i])
  BY DEF PlacedTo
<1> QED BY <1>1, <1>2, <1>3, TableKeeps

\* The section that was found has a place, if it is there.
LEMMA SectionPlace ==
    ASSUME Usual, image \in Images, NEW r \in Section, r.size = 0 \/ r = image.rsc
    PROVE  r.da \in Nat /\ r.size \in Nat /\ WithinTcm(r.da, r.size)
BY ImageAssumption DEF Usual, ImagesRegular, WithinTcm, Section

\* The end of remoteproc_load.
LEMMA PlaceFinish ==
    ASSUME Usual, ParseInv, MemInv, FlowInv, PlaceInv, FinishLoad
    PROVE  PlaceInv'
<1>0. /\ image \in Images /\ rsc \in Section /\ (rsc.size = 0 \/ rsc = image.rsc)
      /\ rproc \in Rproc /\ rproc.mems \in Seq(Mem) /\ DOMAIN tmem = Cells
      /\ Straight(rproc.mems) /\ faults \in Nat /\ pc = "update"
      /\ PlacedTo(tmem, image, Len(image.segs)) /\ info # NoInfo
      /\ table # "none" => rsc.size > 0
  BY DEF FinishLoad, ParseInv, MemInv, Rproc, PlaceInv, BlockInv
<1>1. image' = image /\ pc' \in {"crash", "load_ret"} /\ info' = NoInfo /\ table' = "none"
  BY DEF FinishLoad, input
<1>2. PICK f : LET pa == MapPa(rsc.da, rsc.size, f)
                   mapped == table # "none" /\ pa # ANY
               IN  /\ Outcome(f)
                   /\ tmem' = IF mapped /\ table = "live" THEN TableAt(tmem, pa, rsc) ELSE tmem
                   /\ rproc' = [rproc EXCEPT
                        !.mems = IF table # "none" THEN MapMems(rsc.da, rsc.size, f) ELSE @,
                        !.rsc_table = IF mapped THEN table ELSE @,
                        !.bootaddr = elf_get_entry(image, info), !.state = "READY"]
  BY Zenon DEF FinishLoad
<1> DEFINE pa == MapPa(rsc.da, rsc.size, f)
           M == MapMems(rsc.da, rsc.size, f)
<1>3. rsc.da \in Nat /\ rsc.size \in Nat /\ WithinTcm(rsc.da, rsc.size)
  BY <1>0, SectionPlace
<1>4. /\ Straight(M) /\ (rsc.size > 0 /\ pa # ANY => pa = Pa(rsc.da))
      /\ pa # ANY => pa \in Nat
  BY <1>0, <1>3, MapStraight, MapResult
<1> HIDE DEF pa, M
<1>5. rproc'.mems = (IF table # "none" THEN M ELSE rproc.mems) /\ rproc'.bootaddr = image.entry
  <2> DEFINE mm == IF table # "none" THEN M ELSE rproc.mems
             tt == IF table # "none" /\ pa # ANY THEN table ELSE rproc.rsc_table
  <2>1. rproc' = [rproc EXCEPT !.mems = mm, !.rsc_table = tt,
                               !.bootaddr = elf_get_entry(image, info), !.state = "READY"]
    BY <1>2 DEF pa, M
  <2>2. elf_get_entry(image, info) = image.entry
    BY <1>0 DEF elf_get_entry
  <2> HIDE DEF mm, tt
  <2>3. rproc'.mems = mm /\ rproc'.bootaddr = image.entry
    BY <1>0, <2>1, <2>2 DEF Rproc
  <2> QED BY <2>3 DEF mm
<1>6. Straight(rproc.mems)'
  BY <1>0, <1>4, <1>5 DEF Straight
<1>7. PlacedTo(tmem', image, Len(image.segs))
  <2>1. CASE tmem' = tmem
    BY <1>0, <2>1
  <2>2. CASE table = "live" /\ pa # ANY /\ tmem' = TableAt(tmem, pa, rsc)
    BY <1>0, <1>4, <2>2, TableWritten
  <2> QED BY <1>2, <2>1, <2>2 DEF pa
<1>8. Complete'
  BY <1>0, <1>1, <1>5, <1>7, CompleteNext
<1>9. faults' \in Nat
  BY <1>0, <1>2, FaultsGrow
<1> QED BY <1>1, <1>6, <1>8, <1>9 DEF PlaceInv, BlockInv, StreamInv, StartInv

\* One turn of the loop over the data.
LEMMA PlaceData ==
    ASSUME Usual, ParseInv, MemInv, PlaceInv, LoadData
    PROVE  PlaceInv'
<1>0. /\ image \in Images /\ chunk \in Chunk /\ pc = "data"
      /\ SoundInfo(info) /\ last = info.state /\ last.ldr # "not_ready"
      /\ rproc \in Rproc /\ rproc.mems \in Seq(Mem) /\ DOMAIN tmem = Cells
      /\ Straight(rproc.mems) /\ faults \in Nat
      /\ Counted(image, info) /\ PlacedTo(tmem, image, info.state.nseg)
      /\ table # "none" => rsc.size > 0
  BY DEF LoadData, ParseInv, MemInv, Rproc, PlaceInv, BlockInv
<1>1. UNCHANGED <<image, rsc>>
  BY DEF LoadData, input
<1>2. chunk.at = chunk.offset \/ NotSections(image, chunk)
  BY <1>0, ApartBytes DEF ParseInv
<1>3. /\ Nothing.da = ANY /\ Nothing.noffset = 0 /\ Nothing.nlen = 0 /\ Nothing.nmemsize = 0
  BY DEF Nothing
<1>4. PICK f : LET d == elf_load(image, info, last, chunk, Nothing, f)
                   pa == MapPa(d.da, d.nmemsize, f)
               IN /\ Outcome(f)
                  /\ \/ /\ FailsFor(d.nlen)
                        /\ \/ UNCHANGED rproc
                           \/ /\ d.ret # Failed /\ d.da # ANY
                              /\ rproc' = [rproc EXCEPT !.mems = MapMems(d.da, d.nmemsize, f)]
                     \/ /\ d.ret # Failed /\ d.da # ANY
                        /\ rproc' = [rproc EXCEPT !.mems = MapMems(d.da, d.nmemsize, f)]
                        /\ pa # ANY
                        /\ tmem' = Written(tmem, pa, d.noffset, d.nlen, d.nmemsize)
                        /\ info' = d.info /\ UNCHANGED <<pc, table>>
                     \/ /\ d.ret # Failed /\ d.da = ANY /\ UNCHANGED <<rproc, tmem>>
                        /\ pc' \in {"finish", pc} /\ info' = d.info /\ UNCHANGED table
  BY Zenon DEF LoadData, FailsFor
<1> DEFINE d == elf_load(image, info, last, chunk, Nothing, f)
           pa == MapPa(d.da, d.nmemsize, f)
           M == MapMems(d.da, d.nmemsize, f)
<1>5. LoadOk(d, image) /\ LoadMore(d, image, info)
  <2>1. d = elf_load(image, info, info.state, chunk, Nothing, f)
    BY <1>0
  <2>2. info.state.ldr # "not_ready" /\ Nothing.noffset \in Nat /\ Nothing.nlen \in Nat
    BY <1>0, <1>3
  <2>3. LoadMore(elf_load(image, info, info.state, chunk, Nothing, f), image, info)
    BY <1>0, <1>2, <1>3, <2>2, LoadCounts
  <2>4. LoadOk(elf_load(image, info, info.state, chunk, Nothing, f), image)
    BY <1>0, <1>2, <1>3, <2>2, LoadCall
  <2> QED BY <2>1, <2>3, <2>4
<1>6. \/ /\ FailsFor(d.nlen)
         /\ \/ UNCHANGED rproc
            \/ d.ret # Failed /\ d.da # ANY /\ rproc' = [rproc EXCEPT !.mems = M]
      \/ /\ d.ret # Failed /\ d.da # ANY /\ rproc' = [rproc EXCEPT !.mems = M]
         /\ pa # ANY /\ tmem' = Written(tmem, pa, d.noffset, d.nlen, d.nmemsize)
         /\ info' = d.info /\ UNCHANGED <<pc, table>>
      \/ /\ d.ret # Failed /\ d.da = ANY /\ UNCHANGED <<rproc, tmem>>
         /\ pc' \in {"finish", pc} /\ info' = d.info /\ UNCHANGED table
  BY <1>4, Zenon
<1>7. ASSUME d.ret # Failed, d.da # ANY
      PROVE  /\ Straight(M) /\ (d.nmemsize > 0 /\ pa # ANY => pa = Pa(d.da))
             /\ pa # ANY => pa \in Nat
  <2>1. d.da \in Nat /\ d.nmemsize \in Nat /\ WithinTcm(d.da, d.nmemsize)
    BY <1>5, <1>7 DEF LoadMore
  <2> HIDE DEF d
  <2> QED BY <1>0, <2>1, MapStraight, MapResult
<1> HIDE DEF d, pa, M
<1>8. faults' \in Nat
  BY <1>0, <1>4, FaultsGrow
<1>9. ASSUME d.ret # Failed, d.da # ANY, rproc' = [rproc EXCEPT !.mems = M]
      PROVE  Straight(rproc.mems)'
  <2>1. rproc'.mems = M
    BY <1>0, <1>9 DEF Rproc
  <2> QED BY <1>7, <1>9, <2>1 DEF Straight
<1>10. UNCHANGED rproc => Straight(rproc.mems)'
  BY <1>0 DEF Straight
<1>11. CASE /\ FailsFor(d.nlen)
            /\ \/ UNCHANGED rproc
               \/ d.ret # Failed /\ d.da # ANY /\ rproc' = [rproc EXCEPT !.mems = M]
  <2>1. Straight(rproc.mems)'
    BY <1>9, <1>10, <1>11
  <2> QED BY <1>8, <1>11, <2>1, FailsNegative
<1>n. /\ info.state.nseg \in Nat /\ image.segs \in Seq(Segment)
      /\ DOMAIN image.segs = 1..Len(image.segs) /\ Len(image.segs) \in Nat
  BY <1>0, ImageAssumption, ParserAssumption DEF SoundInfo, SoundState, LoadState, ElfImage
<1>12. CASE /\ d.ret # Failed /\ d.da # ANY /\ rproc' = [rproc EXCEPT !.mems = M]
            /\ pa # ANY /\ tmem' = Written(tmem, pa, d.noffset, d.nlen, d.nmemsize)
            /\ info' = d.info /\ UNCHANGED <<pc, table>>
  <2>1. /\ Counted(image, d.info)
        /\ AsksNext(d, image, info.state.nseg) \/ AsksNone(d, image, info.state.nseg)
    BY <1>5, <1>12 DEF LoadMore
  <2>2. PlacedTo(tmem', image, d.info.state.nseg)
    <3>1. CASE AsksNext(d, image, info.state.nseg)
      <4> DEFINE k == d.info.state.nseg
      <4>1. /\ k \in DOMAIN image.segs /\ IsSegment(d, image.segs[k])
            /\ \A j \in DOMAIN image.segs : info.state.nseg < j /\ j < k => ~image.segs[j].load
        BY <3>1 DEF AsksNext
      <4> HIDE DEF k
      <4>2. /\ image.segs[k].load /\ d.da = image.segs[k].da /\ d.noffset = image.segs[k].offset
            /\ d.nlen = image.segs[k].filesz /\ d.nmemsize = image.segs[k].memsz
        BY <4>1 DEF IsSegment
      <4>3. pa \in Nat /\ (image.segs[k].memsz > 0 => pa = Pa(image.segs[k].da))
        BY <1>7, <1>12, <4>2
      <4>4. info.state.nseg \in Int
        BY <1>n
      <4>5. PlacedTo(Written(tmem, pa, image.segs[k].offset, image.segs[k].filesz,
                             image.segs[k].memsz), image, k)
        BY <1>0, <4>1, <4>2, <4>3, <4>4, SegmentWritten
      <4> QED BY <1>12, <4>2, <4>5 DEF k
    <3>2. CASE AsksNone(d, image, info.state.nseg)
      <4>1. d.nlen = 0 /\ d.nmemsize = 0
        BY <1>12, <3>2 DEF AsksNone
      <4>2. PlacedTo(tmem, image, d.info.state.nseg)
        BY <1>0, <1>n, <3>2 DEF AsksNone, PlacedTo
      <4>3. pa \in Nat
        BY <1>7, <1>12
      <4>4. PlacedTo(Written(tmem, pa, d.noffset, 0, 0), image, d.info.state.nseg)
        BY <1>0, <4>2, <4>3, NothingWritten
      <4> QED BY <1>12, <4>1, <4>4
    <3> QED BY <2>1, <3>1, <3>2
  <2>3. Straight(rproc.mems)'
    BY <1>9, <1>12
  <2>4. Counted(image, info)' /\ PlacedTo(tmem, image, info.state.nseg)'
    BY <1>1, <1>12, <2>1, <2>2 DEF Counted, PlacedTo
  <2> QED BY <1>0, <1>1, <1>8, <1>12, <2>3, <2>4 DEF PlaceInv, BlockInv, StreamInv, StartInv
<1>13. CASE /\ d.ret # Failed /\ d.da = ANY /\ UNCHANGED <<rproc, tmem>>
            /\ pc' \in {"finish", pc} /\ info' = d.info /\ UNCHANGED table
  <2>1. AsksNone(d, image, info.state.nseg) /\ Counted(image, d.info)
    BY <1>5, <1>13 DEF LoadMore, AsksNext
  <2>2. \A n : PlacedTo(tmem, image, n)
    BY <1>0, <1>n, <2>1 DEF AsksNone, PlacedTo
  <2>3. Counted(image, info)' /\ (\A n : PlacedTo(tmem, image, n)')
    BY <1>1, <1>13, <2>1, <2>2 DEF Counted, PlacedTo
  <2>4. PlacedTo(tmem, image, info.state.nseg)' /\ PlacedTo(tmem, image, Len(image.segs))'
    BY <2>3 DEF PlacedTo
  <2>5. info' # NoInfo
    BY <1>5, <1>13, ParserAssumption DEF LoadOk, SoundInfo
  <2> QED BY <1>0, <1>1, <1>8, <1>10, <1>13, <2>3, <2>4, <2>5
          DEF PlaceInv, BlockInv, StreamInv, StartInv
<1> QED BY <1>6, <1>11, <1>12, <1>13, Zenon

\* The headers behind the non-blocking loader, before a call.
LEMMA BehindPlaced ==
    ASSUME ParseInv, PlaceInv, pc = "nb_call", faults = 0, Streamable
    PROVE  /\ info # NoInfo => Going(image, info)
           /\ PlacedTo(tmem, image, Behind) /\ Behind \in Nat
<1>1. image.segs \in Seq(Segment) /\ (info = NoInfo \/ SoundInfo(info))
  BY ImageAssumption DEF ParseInv, ElfImage
<1>2. CASE info = NoInfo
  BY <1>1, <1>2 DEF Behind, PlacedTo
<1>3. CASE info # NoInfo
  <2>1. Streamed
    BY <1>3 DEF PlaceInv, StreamInv
  <2>2. info.state.nseg \in Nat
    BY <1>1, <1>3, ParserAssumption DEF SoundInfo, SoundState, LoadState
  <2> QED BY <1>3, <2>1, <2>2 DEF Streamed, Behind
<1> QED BY <1>2, <1>3

\* One call of the non-blocking function.
LEMMA PlaceCall ==
    ASSUME Usual, ParseInv, MemInv, FlowInv, PlaceInv, NoblockCall
    PROVE  PlaceInv'
<1>0. /\ image \in Images /\ image \in ElfImage /\ pc = "nb_call" /\ mode = "noblock"
      /\ rproc \in Rproc /\ rproc.mems \in Seq(Mem) /\ DOMAIN tmem = Cells
      /\ rsc \in Section /\ (rsc.size = 0 \/ rsc = image.rsc)
      /\ Straight(rproc.mems) /\ faults \in Nat /\ table = "none"
      /\ info # NoInfo => Counted(image, info)
  BY ImageAssumption
     DEF NoblockCall, ParseInv, MemInv, FlowInv, Rproc, PlaceInv, BlockInv, StreamInv
<1>1. UNCHANGED <<image, mode, table>>
  BY DEF NoblockCall, input
<1>2. PICK f : LET d == NoblockSegment(f)
                   mapping == d.ret # Failed /\ d.da # ANY
                   complete == d.ret # Failed /\ d.nlen = 0 /\ d.ret.ldr = "load_complete"
               IN /\ Outcome(f)
                  /\ next' = [da |-> d.da, noffset |-> d.noffset, nlen |-> d.nlen,
                              nmemsize |-> d.nmemsize]
                  /\ \/ complete /\ NoblockTable(d.info, f)
                     \/ /\ ~complete
                        /\ rproc' = [rproc EXCEPT !.mems =
                                       IF mapping THEN MapMems(d.da, d.nmemsize, f) ELSE @]
                        /\ UNCHANGED tmem
                        /\ \/ NoblockFail(Err)
                           \/ /\ d.ret # Failed /\ info' = d.info
                              /\ pc' = IF d.nlen = 0 THEN "start" ELSE "nb_store"
  BY Zenon DEF NoblockCall
<1> DEFINE d == NoblockSegment(f)
           mapping == d.ret # Failed /\ d.da # ANY
           complete == d.ret # Failed /\ d.nlen = 0 /\ d.ret.ldr = "load_complete"
<1>3. AskOk(d) /\ AskMore(d)
  BY <1>0, AskResult, AskCounts
<1>4. \/ complete /\ NoblockTable(d.info, f)
      \/ /\ ~complete
         /\ rproc' = [rproc EXCEPT !.mems = IF mapping THEN MapMems(d.da, d.nmemsize, f) ELSE @]
         /\ UNCHANGED tmem
         /\ \/ NoblockFail(Err)
            \/ /\ d.ret # Failed /\ info' = d.info
               /\ pc' = IF d.nlen = 0 THEN "start" ELSE "nb_store"
  BY <1>2, Zenon
<1>5. next' = [da |-> d.da, noffset |-> d.noffset, nlen |-> d.nlen, nmemsize |-> d.nmemsize]
  BY <1>2, Zenon
<1> HIDE DEF d
<1>6. faults' \in Nat /\ (faults' = 0 => faults = 0 /\ f = "none")
  BY <1>0, <1>2, FaultsGrow
<1>l. /\ Len(image.segs) \in Nat \ {0} /\ DOMAIN image.segs = 1..Len(image.segs)
      /\ image.segs \in Seq(Segment)
  <2>1. image.segs \in Seq(Segment) /\ Loads(image)
    BY <1>0 DEF ElfImage, Usual, ImagesFit
  <2> QED BY <2>1 DEF Loads
<1>s. Streamable' <=> Streamable
  BY <1>1 DEF Streamable
\* What is known of the call as long as nothing has failed.
<1>7. ASSUME d.ret # Failed, faults = 0, Streamable
      PROVE  /\ PlacedTo(tmem, image, Behind) /\ Behind \in Nat
             /\ d.nlen = 0 => d.ret.ldr = "load_complete"
             /\ d.info # NoInfo => Going(image, d.info)
             /\ \/ d.info # NoInfo /\ AsksNext(d, image, Behind)
                \/ d.da = ANY /\ (d.info # NoInfo => d.info.state.nseg = Behind)
  BY <1>0, <1>3, <1>7, BehindPlaced DEF AskMore
<1>8. CASE complete /\ NoblockTable(d.info, f)
  <2> DEFINE loc == elf_locate_rsc_table(image, d.info, rsc)
             some == loc.ok /\ loc.rsc.size > 0
             pa == MapPa(loc.rsc.da, loc.rsc.size, f)
             M == MapMems(loc.rsc.da, loc.rsc.size, f)
  <2>1. loc.rsc \in Section /\ (loc.rsc.size = 0 \/ loc.rsc = image.rsc)
    BY LocateResult
  <2>2. loc.rsc.da \in Nat /\ loc.rsc.size \in Nat /\ WithinTcm(loc.rsc.da, loc.rsc.size)
    BY <1>0, <2>1, SectionPlace
  <2>3. /\ Straight(M)
        /\ f = "none" => pa \in Nat /\ (loc.rsc.size > 0 => pa = Pa(loc.rsc.da))
    <3> HIDE DEF loc
    <3> QED BY <1>0, <2>2, MapStraight, MapResult
  <2>4. \/ /\ f = "none"
           /\ rproc' = [rproc EXCEPT !.mems = IF some THEN M ELSE @,
                                     !.rsc_table = IF some THEN "live" ELSE @,
                                     !.bootaddr = elf_get_entry(image, d.info)]
           /\ tmem' = IF some THEN TableAt(tmem, pa, loc.rsc) ELSE tmem
           /\ info' = d.info /\ pc' = "start"
        \/ /\ f # "none"
           /\ rproc' = [rproc EXCEPT !.mems = IF f = "parse" THEN M ELSE @]
           /\ info' = NoInfo /\ pc' \in {"start", "cleanup"} /\ UNCHANGED tmem
    BY <1>8, Zenon DEF NoblockTable, NoblockFail
  <2> HIDE DEF loc, some, pa, M
  <2>5. CASE /\ f = "none"
             /\ rproc' = [rproc EXCEPT !.mems = IF some THEN M ELSE @,
                                       !.rsc_table = IF some THEN "live" ELSE @,
                                       !.bootaddr = elf_get_entry(image, d.info)]
             /\ tmem' = IF some THEN TableAt(tmem, pa, loc.rsc) ELSE tmem
             /\ info' = d.info /\ pc' = "start"
    <3>1. SoundInfo(d.info) /\ d.ret = d.info.state /\ d.info # NoInfo
      BY <1>3, <1>8, ParserAssumption DEF AskOk, Parsed, InitState, SoundInfo
    <3>2. rproc'.mems = (IF some THEN M ELSE rproc.mems) /\ rproc'.bootaddr = image.entry
      <4>1. elf_get_entry(image, d.info) = image.entry
        BY <3>1 DEF elf_get_entry
      <4> QED BY <1>0, <2>5, <4>1 DEF Rproc
    <3>3. Straight(rproc.mems)'
      BY <1>0, <2>3, <3>2 DEF Straight
    <3>4. ASSUME faults' = 0, Streamable' PROVE Complete'
      <4>1. /\ PlacedTo(tmem, image, Behind) /\ Behind \in Nat
            /\ \/ AsksNext(d, image, Behind)
               \/ d.da = ANY /\ d.info.state.nseg = Behind
        BY <1>6, <1>7, <1>8, <1>s, <3>1, <3>4
      <4>2. ~AsksNext(d, image, Behind)
        <5> SUFFICES ASSUME AsksNext(d, image, Behind) PROVE FALSE
          OBVIOUS
        <5>1. PICK k \in DOMAIN image.segs : IsSegment(d, image.segs[k])
          BY DEF AsksNext
        <5>2. image.segs[k].filesz > 0 /\ d.nlen = image.segs[k].filesz
          BY <1>s, <3>4, <5>1 DEF Streamable, IsSegment
        <5> QED BY <1>8, <5>2
      <4>3. Behind = Len(image.segs)
        BY <1>3, <1>8, <3>1, <4>1, <4>2 DEF AskMore, Counted
      <4>4. PlacedTo(tmem', image, Len(image.segs))
        <5>1. CASE some
          <6>1. loc.rsc = image.rsc /\ tmem' = TableAt(tmem, pa, image.rsc)
            BY <2>1, <2>2, <2>5, <5>1 DEF some
          <6> QED BY <1>0, <2>3, <2>5, <4>1, <4>3, <6>1, TableWritten
        <5>2. CASE ~some
          BY <2>5, <4>1, <4>3, <5>2
        <5> QED BY <5>1, <5>2
      <4> QED BY <1>0, <1>1, <3>2, <4>4, CompleteNext
    <3> QED BY <1>0, <1>1, <1>6, <2>5, <3>3, <3>4 DEF PlaceInv, BlockInv, StreamInv, StartInv
  <2>6. CASE /\ f # "none"
             /\ rproc' = [rproc EXCEPT !.mems = IF f = "parse" THEN M ELSE @]
             /\ info' = NoInfo /\ pc' \in {"start", "cleanup"} /\ UNCHANGED tmem
    <3>1. rproc'.mems \in {M, rproc.mems}
      BY <1>0, <2>6 DEF Rproc
    <3>2. Straight(rproc.mems)'
      BY <1>0, <2>3, <3>1 DEF Straight
    <3> QED BY <1>0, <1>1, <1>6, <2>6, <3>2 DEF PlaceInv, BlockInv, StreamInv, StartInv
  <2> QED BY <2>4, <2>5, <2>6, Zenon
<1>9. CASE /\ ~complete
           /\ rproc' = [rproc EXCEPT !.mems = IF mapping THEN MapMems(d.da, d.nmemsize, f) ELSE @]
           /\ UNCHANGED tmem
           /\ \/ NoblockFail(Err)
              \/ /\ d.ret # Failed /\ info' = d.info
                 /\ pc' = IF d.nlen = 0 THEN "start" ELSE "nb_store"
  <2>1. Straight(rproc.mems)'
    <3>1. CASE mapping
      <4> DEFINE M == MapMems(d.da, d.nmemsize, f)
      <4>1. d.da \in Nat /\ d.nmemsize \in Nat /\ WithinTcm(d.da, d.nmemsize)
        BY <1>3, <3>1 DEF AskMore
      <4>2. Straight(M)
        BY <1>0, <4>1, MapStraight
      <4>3. rproc' = [rproc EXCEPT !.mems = M]
        BY <1>9, <3>1
      <4> HIDE DEF M
      <4>4. rproc'.mems = M
        BY <1>0, <4>3 DEF Rproc
      <4> QED BY <4>2, <4>4 DEF Straight
    <3>2. CASE ~mapping
      <4>1. rproc'.mems = rproc.mems
        BY <1>0, <1>9, <3>2 DEF Rproc
      <4> QED BY <1>0, <4>1 DEF Straight
    <3> QED BY <3>1, <3>2
  <2>2. CASE NoblockFail(Err)
    <3>1. pc' = "cleanup"
      BY <2>2 DEF NoblockFail, Ok, Err
    <3> QED BY <1>0, <1>1, <1>6, <2>1, <3>1, PlaceFrame DEF Busy
  <2>3. CASE d.ret # Failed /\ info' = d.info /\ pc' = IF d.nlen = 0 THEN "start" ELSE "nb_store"
    <3>1. CASE d.nlen = 0
      <4>1. ~(faults' = 0 /\ Streamable')
        BY <1>6, <1>7, <1>9, <1>s, <2>3, <3>1
      <4> QED BY <1>0, <1>1, <1>6, <2>1, <2>3, <3>1, <4>1
              DEF PlaceInv, BlockInv, StreamInv, StartInv
    <3>2. CASE d.nlen # 0
      <4>1. /\ pc' = "nb_store" /\ next'.da = d.da /\ next'.noffset = d.noffset
            /\ next'.nlen = d.nlen /\ next'.nmemsize = d.nmemsize
        BY <1>5, <2>3, <3>2
      <4>2. ASSUME info' # NoInfo PROVE Counted(image, info)'
        BY <1>1, <1>3, <2>3, <4>2 DEF AskMore, Counted
      <4>3. ASSUME info' # NoInfo, faults' = 0, Streamable' PROVE Streamed'
        <5>1. /\ PlacedTo(tmem, image, Behind) /\ Behind \in Nat /\ Going(image, d.info)
              /\ \/ AsksNext(d, image, Behind)
                 \/ d.da = ANY /\ d.info.state.nseg = Behind
          BY <1>6, <1>7, <1>s, <2>3, <4>3
        <5>2. Going(image, info)'
          BY <1>1, <2>3, <5>1 DEF Going
        <5>3. CASE AsksNext(d, image, Behind)
          <6> DEFINE k == d.info.state.nseg
          <6>1. /\ d.da # ANY /\ Behind < k /\ k \in DOMAIN image.segs
                /\ IsSegment(d, image.segs[k])
                /\ \A j \in DOMAIN image.segs : Behind < j /\ j < k => ~image.segs[j].load
            BY <5>3 DEF AsksNext
          <6>2. IsSegment(next', image.segs[k])
            BY <4>1, <6>1 DEF IsSegment
          <6>3. PlacedTo(tmem, image, k - 1)
            <7> SUFFICES ASSUME NEW i \in DOMAIN image.segs, i <= k - 1, image.segs[i].load
                         PROVE  InPlace(tmem, image, image.segs[i])
              BY DEF PlacedTo
            <7>1. i <= Behind
              BY <1>l, <5>1, <6>1
            <7> QED BY <5>1, <7>1 DEF PlacedTo
          <6>4. /\ info'.state.nseg = k /\ next'.da # ANY
                /\ IsSegment(next, image.segs[info.state.nseg])'
            BY <1>1, <2>3, <4>1, <6>1, <6>2 DEF IsSegment
          <6>5. PlacedTo(tmem, image, info.state.nseg - 1)'
            BY <1>1, <1>9, <6>3, <6>4 DEF PlacedTo
          <6> QED BY <1>1, <4>1, <5>2, <6>1, <6>4, <6>5 DEF Streamed
        <5>4. CASE d.da = ANY /\ d.info.state.nseg = Behind
          <6>1. PlacedTo(tmem, image, info.state.nseg)'
            BY <1>1, <1>9, <2>3, <5>1, <5>4 DEF PlacedTo
          <6> QED BY <4>1, <5>2, <5>4, <6>1 DEF Streamed
        <5> QED BY <5>1, <5>3, <5>4
      <4>4. StreamInv'
        BY <4>1, <4>2, <4>3 DEF StreamInv
      <4> QED BY <1>0, <1>1, <1>6, <2>1, <4>1, <4>4 DEF PlaceInv, BlockInv, StartInv
    <3> QED BY <3>1, <3>2
  <2> QED BY <1>9, <2>2, <2>3
<1> QED BY <1>4, <1>8, <1>9, Zenon

\* The larger of zero and a number that is not negative.
LEMMA MaxNat == ASSUME NEW r \in Nat PROVE Max({r, 0}) = r
<1>1. \E x \in {r, 0} : \A y \in {r, 0} : x >= y
  OBVIOUS
<1>2. Max({r, 0}) \in {r, 0} /\ \A y \in {r, 0} : Max({r, 0}) >= y
  BY <1>1 DEF Max
<1> QED BY <1>2

\* The caller of the non-blocking function puts the segment in its place.
LEMMA PlaceStore ==
    ASSUME Usual, ParseInv, MemInv, PlaceInv, NoblockStore
    PROVE  PlaceInv'
<1>0. /\ image \in Images /\ image \in ElfImage /\ pc = "nb_store" /\ next \in Request
      /\ rproc \in Rproc /\ rproc.mems \in Seq(Mem) /\ DOMAIN tmem = Cells
      /\ next.nlen \in Nat /\ Straight(rproc.mems) /\ faults \in Nat /\ table = "none"
      /\ info = NoInfo \/ SoundInfo(info)
      /\ info # NoInfo => Counted(image, info)
  BY ImageAssumption
     DEF NoblockStore, ParseInv, MemInv, Rproc, Request, PlaceInv, BlockInv, StreamInv
<1>1. UNCHANGED <<image, mode, rproc, info, next, table>>
  BY DEF NoblockStore, input
<1> DEFINE pa == MapPa(next.da, next.nmemsize, "none")
<1>2. PICK f, r :
        /\ Outcome(f) /\ r \in Delivered(next.nlen, f)
        /\ \/ next.da = ANY /\ UNCHANGED tmem
           \/ /\ next.da # ANY
              /\ tmem' = Written(tmem, pa, next.noffset, Max({r, 0}),
                                 IF r = next.nlen THEN next.nmemsize ELSE Max({r, 0}))
        /\ pc' = IF r = next.nlen THEN "nb_call" ELSE IF r < 0 THEN "cleanup" ELSE "remove"
  BY Zenon DEF NoblockStore
<1>3. faults' \in Nat /\ (faults' = 0 => faults = 0 /\ f = "none")
  BY <1>0, <1>2, FaultsGrow
<1>4. Straight(rproc.mems)'
  BY <1>0, <1>1 DEF Straight
<1>5. pc' \in {"nb_call", "cleanup", "remove"}
  BY <1>2
<1>6. ASSUME info # NoInfo, faults' = 0, Streamable' PROVE Streamed' \/ pc' # "nb_call"
  <2>1. Streamable /\ Streamed /\ f = "none"
    <3>1. Streamable
      BY <1>1, <1>6 DEF Streamable
    <3> QED BY <1>0, <1>3, <1>6, <3>1 DEF PlaceInv, StreamInv
  <2>2. r = next.nlen
    BY <1>2, <2>1 DEF Delivered
  <2>3. Going(image, info)'
    BY <1>1, <2>1 DEF Streamed, Going
  <2>4. pc' = "nb_call"
    BY <1>2, <2>2
  <2> DEFINE k == info.state.nseg
  <2>5. k \in Nat /\ image.segs \in Seq(Segment)
    BY <1>0, <1>6, ParserAssumption DEF SoundInfo, SoundState, LoadState, ElfImage
  <2>6. CASE next.da = ANY
    <3>1. PlacedTo(tmem, image, k) /\ tmem' = tmem
      BY <1>0, <1>2, <2>1, <2>6 DEF Streamed
    <3>2. PlacedTo(tmem, image, info.state.nseg)'
      BY <1>1, <3>1 DEF PlacedTo
    <3> QED BY <2>3, <2>4, <3>2 DEF Streamed
  <2>7. CASE next.da # ANY
    <3>1. k \in DOMAIN image.segs /\ IsSegment(next, image.segs[k]) /\ PlacedTo(tmem, image, k - 1)
      BY <1>0, <2>1, <2>7 DEF Streamed
    <3>2. /\ image.segs[k].load /\ next.da = image.segs[k].da /\ next.noffset = image.segs[k].offset
          /\ next.nlen = image.segs[k].filesz /\ next.nmemsize = image.segs[k].memsz
      BY <3>1 DEF IsSegment
    <3>3. Placeable(image.segs[k])
      BY <1>0, <3>1, <3>2, SegmentPlaceable DEF Usual
    <3>4. next.da \in Nat /\ next.nmemsize \in Nat /\ WithinTcm(next.da, next.nmemsize)
      BY <3>2, <3>3 DEF Placeable, Segment
    <3>5. pa \in Nat /\ (next.nmemsize > 0 => pa = Pa(next.da))
      BY <1>0, <3>4, MapStraight, MapResult
    <3> HIDE DEF pa
    <3>6. tmem' = Written(tmem, pa, image.segs[k].offset, image.segs[k].filesz, image.segs[k].memsz)
      BY <1>0, <1>2, <2>2, <2>7, <3>2, MaxNat
    <3>7. k - 1 \in Int /\ \A j \in DOMAIN image.segs : k - 1 < j /\ j < k => ~image.segs[j].load
      BY <2>5
    <3>8. image.segs[k].memsz > 0 => pa = Pa(image.segs[k].da)
      BY <3>2, <3>5
    <3> HIDE DEF k
    <3>9. PlacedTo(tmem', image, k)
      BY <1>0, <3>1, <3>2, <3>5, <3>6, <3>7, <3>8, SegmentWritten
    <3>10. PlacedTo(tmem, image, info.state.nseg)'
      BY <1>1, <3>9 DEF PlacedTo, k
    <3> QED BY <2>3, <2>4, <3>10 DEF Streamed
  <2> QED BY <2>6, <2>7
<1>7. info' # NoInfo => Counted(image, info)'
  BY <1>0, <1>1 DEF Counted
<1>8. StreamInv'
  BY <1>1, <1>5, <1>6, <1>7 DEF StreamInv
<1> QED BY <1>0, <1>1, <1>3, <1>4, <1>5, <1>8 DEF PlaceInv, BlockInv, StartInv

\* Every step keeps the segments in their places.
LEMMA PlaceStep ==
    Usual /\ ParseInv /\ MemInv /\ FlowInv /\ PlaceInv /\ [Next]_vars => PlaceInv'
<1> SUFFICES ASSUME Usual, ParseInv, MemInv, FlowInv, PlaceInv, [Next]_vars PROVE PlaceInv'
  OBVIOUS
<1>1. CASE UNCHANGED vars
  <2>1. UNCHANGED <<image, rproc, rsc, info, next, pc, mode, table, ret, faults, tmem, hw>>
    BY <1>1 DEF vars, input, target, parse
  <2>2. Complete => Complete'
    BY <2>1, CompleteFrame DEF ParseInv
  <2>3. Streamable' <=> Streamable
    BY <2>1 DEF Streamable
  <2>4. Straight(rproc.mems)' /\ StartInv'
    BY <2>1, <2>2, <2>3 DEF PlaceInv, Straight, StartInv
  <2>5. BlockInv'
    BY <2>1, <2>2 DEF PlaceInv, BlockInv, Counted, PlacedTo
  <2>6. StreamInv'
    BY <2>1, <2>3 DEF PlaceInv, StreamInv, Streamed, Counted, Going, PlacedTo, IsSegment
  <2> QED BY <2>1, <2>4, <2>5, <2>6 DEF PlaceInv
<1>2. CASE Step
  BY <1>2, PlaceProgram, PlaceOpen, PlaceHeader, PlaceLocate, PlaceData, PlaceFinish, PlaceCall,
     PlaceStore DEF Step
<1> QED BY <1>1, <1>2 DEF Next, Ended

\* For any images whose parts have places of their own, and a store that
\* delivers what it was asked for or an error: whatever fails on the way, the
\* blocking path starts the processor only with the complete image, and so
\* does the non-blocking path when nothing failed and the image is Streamable.
THEOREM StartsComplete == ~Short /\ ImagesFit /\ ImagesRegular => (Spec => []StartedComplete)
<1> SUFFICES ASSUME Usual PROVE Spec => []StartedComplete
  BY DEF Usual
<1>1. Init => ParseInv /\ MemInv /\ FlowInv /\ PlaceInv
  BY LoadInit, PlaceInit DEF Init, FlowInv, LoadPcs
<1>2. ParseInv /\ MemInv /\ FlowInv /\ PlaceInv /\ [Next]_vars =>
        ParseInv' /\ MemInv' /\ FlowInv' /\ PlaceInv'
  BY LoadStep, FlowStep, PlaceStep
<1>3. FlowInv /\ PlaceInv => StartedComplete
  <2> SUFFICES ASSUME FlowInv, PlaceInv, pc = "stop"
               PROVE  \/ hw = "noblock" /\ (faults > 0 \/ ~Streamable)
                      \/ hw # "off" /\ Complete
    BY DEF StartedComplete
  <2>1. /\ hw = mode /\ mode \in {"block", "noblock"} /\ faults \in Nat
        /\ mode = "block" \/ (faults = 0 /\ Streamable) => Complete
    BY DEF PlaceInv, StartInv, FlowInv
  <2> QED BY <2>1
<1> QED BY <1>1, <1>2, <1>3, PTL DEF Spec
================================================================================
