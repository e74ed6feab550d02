----------------------------- MODULE SlotBundle -----------------------------
(***************************************************************************)
(* Slot bundles (bundle.rs): one file with a build for every slot, and the *)
(* choice of the build a device needs.  A file is a sequence of cells: a   *)
(* field of the header or of the table takes one, so does a byte of an     *)
(* image.  A file that starts with the cell `Magic' is taken for a bundle. *)
(***************************************************************************)
EXTENDS HexImage

CONSTANTS
  Magic,          \* MAGIC
  FormatMajor,    \* FORMAT_MAJOR
  MaxVariants,    \* MAX_VARIANTS
  Families        \* FAMILY_NAMES: numbers above 0, which means unspecified

ASSUME BundleAssumption ==
  /\ Magic \in Nat /\ FormatMajor \in Nat /\ MaxVariants \in Nat \ {0}
  /\ Families \subseteq Nat \ {0}

Unspecified == 0
HeaderLen   == 6   \* magic, format, family, count, crc, reserved
EntryLen    == 4   \* base, len, crc, offset

-----------------------------------------------------------------------------
\* Fault: images may run into each other.
RunsInto_Never(a, b) == FALSE
RunsInto(a, b) == a.base = b.base \/ a.base + Len(a.bytes) > b.base

\* Fault: what parse refuses is written.
ImageFits_Unchecked(img) == img.bytes # <<>>
\* the rules parse enforces, before anything is written
ImageFits(img) == img.base % Align = 0 /\ img.bytes # <<>> /\ Len(img.bytes) % Align = 0

\* Bundle::new: in the order of the bases, whatever order they came in
BundleOf(family, images) ==
  LET sorted == SortSeq(images, LAMBDA a, b : a.base < b.base) IN
  IF /\ Len(images) \in 1..MaxVariants
     /\ \A i \in DOMAIN images : ImageFits(images[i])
     /\ \A i \in 1..Len(sorted) - 1 : ~RunsInto(sorted[i], sorted[i + 1])
  THEN [family |-> family, images |-> sorted] ELSE Refused

FileCrc(raw) == Crc32([raw EXCEPT ![5] = 0])
Sealed(raw)  == [raw EXCEPT ![5] = FileCrc(raw)]
PayloadLen(images) == FoldLeft(LAMBDA n, img : n + Len(img.bytes), 0, images)

\* Bundle::encode
EncodeBundle(b) ==
  LET n == Len(b.images)
      table == [i \in 1..n |->
                 <<b.images[i].base, Len(b.images[i].bytes), Crc32(b.images[i].bytes),
                   HeaderLen + n * EntryLen + PayloadLen(SubSeq(b.images, 1, i - 1))>>]
  IN Sealed(<<Magic, FormatMajor, b.family, n, 0, 0>> \o FlattenSeq(table)
              \o FlattenSeq([i \in 1..n |-> b.images[i].bytes]))

LooksLikeBundle(raw) == raw # <<>> /\ raw[1] = Magic

FileIsWhole(raw) == raw[5] = FileCrc(raw)

\* An entry of the table: base, length, CRC and offset
Entry(raw, i) == SubSeq(raw, HeaderLen + (i - 1) * EntryLen + 1, HeaderLen + i * EntryLen)
Payload(raw, e) == SubSeq(raw, e[4] + 1, e[4] + e[2])

PayloadInside(raw, e) == e[4] >= HeaderLen + raw[4] * EntryLen /\ e[4] + e[2] <= Len(raw)

EntryOk(raw, e) ==
  /\ e[2] # 0 /\ e[2] % Align = 0 /\ e[1] % Align = 0
  /\ PayloadInside(raw, e)
  /\ Crc32(Payload(raw, e)) = e[3]

\* Bundle::parse: nothing of the table is believed before the whole file has
\* been checked, and the contents obey the rules of a bundle that is made.
ParseBundle(raw) ==
  IF /\ Len(raw) >= HeaderLen
     /\ raw[1] = Magic /\ raw[2] = FormatMajor
     /\ raw[4] \in 1..MaxVariants
     /\ raw[6] = 0
     /\ FileIsWhole(raw)
     /\ Len(raw) >= HeaderLen + raw[4] * EntryLen
     /\ \A i \in 1..raw[4] : EntryOk(raw, Entry(raw, i))
  THEN BundleOf(raw[3], [i \in 1..raw[4] |->
         [base |-> Entry(raw, i)[1], bytes |-> Payload(raw, Entry(raw, i))]])
  ELSE Refused

-----------------------------------------------------------------------------
(* Which build *)

Single(img) == [family |-> Unspecified, images |-> <<img>>, single |-> TRUE]

\* load_source: the magic decides, whatever the file is called.
LoadSource(file, base) ==
  IF LooksLikeBundle(file.raw)
  THEN LET b == ParseBundle(file.raw) IN
       IF base # None \/ b = Refused THEN Refused
       ELSE [family |-> b.family, images |-> b.images, single |-> FALSE]
  ELSE LET img == LoadImage(file, base) IN IF img = Refused THEN Refused ELSE Single(img)

\* check_family
FamilyFits(src, family) == src.single \/ src.family \in {Unspecified, family}

\* for_base: the build for a base, the first that is found.  A single image is
\* what the user says it is.
ForBase(src, base) ==
  LET found == {i \in DOMAIN src.images :
                  src.images[i].base = base /\ \A j \in 1..i - 1 : src.images[j].base # base}
  IN IF src.single THEN src.images[1]
     ELSE IF found = {} THEN Refused ELSE src.images[CHOOSE i \in found : TRUE]

\* The only image for another base
OnlyOther(src, base) ==
  LET others == {i \in DOMAIN src.images : src.images[i].base # base}
  IN IF Cardinality(others) = 1 THEN src.images[CHOOSE i \in others : TRUE] ELSE Refused

\* Fault: a bundle of one build has that build running.
ForRunningImage_OneIsEnough(src, write_base) ==
  IF Len(src.images) = 1 THEN src.images[1] ELSE OnlyOther(src, write_base)

\* for_running_image: the one that is not the write target
ForRunningImage(src, write_base) ==
  IF src.single THEN src.images[1] ELSE OnlyOther(src, write_base)
=============================================================================
