----------------------------- MODULE ApnicLoader -----------------------------
(***************************************************************************)
(* load_file_to_db of rest-gen-whois-asn.py: the line-by-line reader of    *)
(* APNIC's aut-num split file.  A line is abstracted to its kind; an       *)
(* attribute line keeps its name and its value, a sequence of characters   *)
(* and words (only "A", "S", "#" and the separators are ever inspected).   *)
(* The reader is a fold over the lines; RecordRows is a reference          *)
(* definition of the same result that splits the file at its blank lines.  *)
(***************************************************************************)
EXTENDS Integers, Sequences, SequencesExt, TLC

Blank   == [kind |-> "blank"]     \* "\n": rstrip leaves an empty line
Comment == [kind |-> "comment"]   \* a line starting with '%' or '#'
Other   == [kind |-> "other"]     \* a non-empty line without ':'
Attr(a, v) == [kind |-> "attr", attr |-> a, value |-> v]

\* APNIC_ATTR_MAP, with the source's 'remars' key.
ApnicAttrMap ==
    ("aut-num" :> "asn") @@ ("as-name" :> "as_name") @@ ("country" :> "country")
        @@ ("remars" :> "remarks")

NoRecord == [c \in {} |-> <<>>]

\* value.split('#')[0]: the characters before the first '#'.
CutComment(v) ==
    LET hash == SelectInSeq(v, LAMBDA ch : ch = "#")
    IN IF hash = 0 THEN v ELSE SubSeq(v, 1, hash - 1)

\* The end-of-record address processing of the temp_addr_list descr values.
AddressFields(addr) ==
    LET comma == addr[1] \o <<",", " ">> \o addr[2]
    IN CASE Len(addr) = 4 -> ("address" :> comma) @@ ("city" :> addr[3]) @@ ("postal_code" :> addr[4])
         [] Len(addr) = 3 -> ("address" :> comma) @@ ("city" :> addr[3])
         [] Len(addr) = 2 -> ("address" :> comma)
         [] Len(addr) = 1 -> ("address" :> addr[1])
         [] OTHER -> NoRecord

\* Mutation variant: temp_addr_list is not cleared at the end of a record.
EndRecordKeepAddr(st) ==
    LET rec == AddressFields(st.addr) @@ st.record
    IN [record |-> NoRecord, addr |-> st.addr,
        out |-> IF "asn" \in DOMAIN rec THEN Append(st.out, rec) ELSE st.out]

\* A blank line: add the address, REPLACE the record if it has an 'asn',
\* and start a new record and address list.
EndRecord(st) ==
    LET rec == AddressFields(st.addr) @@ st.record
    IN [record |-> NoRecord, addr |-> <<>>,
        out |-> IF "asn" \in DOMAIN rec THEN Append(st.out, rec) ELSE st.out]

\* A line with ':': descr values are collected; a mapped attribute has its
\* '#' comment cut, aut-num loses its first two characters, and a repeated
\* attribute is appended to the earlier value after a ' '.
AttrLine(st, l) ==
    LET col == ApnicAttrMap[l.attr]
        cut == CutComment(l.value)
        v   == IF l.attr = "aut-num" THEN SubSeq(cut, 3, Len(cut)) ELSE cut
    IN [st EXCEPT
          !.addr = IF l.attr = "descr" THEN Append(@, l.value) ELSE @,
          !.record = IF l.attr \notin DOMAIN ApnicAttrMap THEN @
                     ELSE IF col \in DOMAIN @ THEN [@ EXCEPT ![col] = @ \o <<" ">> \o v]
                     ELSE (col :> v) @@ @]

ReadLine(st, l) ==
    CASE l.kind = "blank" -> EndRecord(st)
      [] l.kind = "attr"  -> AttrLine(st, l)
      [] OTHER            -> st

\* The REPLACE rows load_file_to_db sends for a file, in order.
LoadFile(f) == FoldLeft(ReadLine, [record |-> NoRecord, addr |-> <<>>, out |-> <<>>], f).out

-----------------------------------------------------------------------------
(* Reference: a record is the run of lines before each blank line; it is   *)
(* loaded when it has an aut-num line.                                      *)

JoinWords(s) == FoldLeft(LAMBDA acc, w : acc \o <<" ">> \o w, Head(s), Tail(s))

RecordRow(seg) ==
    LET AttrsOf(a) == SelectSeq(seg, LAMBDA l : l.kind = "attr" /\ l.attr = a)
        Clean(l) == IF l.attr = "aut-num" THEN Tail(Tail(CutComment(l.value))) ELSE CutComment(l.value)
        has == {a \in DOMAIN ApnicAttrMap : AttrsOf(a) # <<>>}
        fields == [c \in {ApnicAttrMap[a] : a \in has} |->
                     LET a == CHOOSE x \in has : ApnicAttrMap[x] = c
                     IN JoinWords([k \in DOMAIN AttrsOf(a) |-> Clean(AttrsOf(a)[k])])]
        descr == AttrsOf("descr")
    IN AddressFields([k \in DOMAIN descr |-> descr[k].value]) @@ fields

RecordRows(f) ==
    LET ends == SetToSortSeq({i \in DOMAIN f : f[i].kind = "blank"}, <)
        seg(k) == SubSeq(f, IF k = 1 THEN 1 ELSE ends[k-1] + 1, ends[k] - 1)
        rows == [k \in DOMAIN ends |-> RecordRow(seg(k))]
    IN SelectSeq(rows, LAMBDA r : "asn" \in DOMAIN r)

=============================================================================
