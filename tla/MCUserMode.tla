----------------------------- MODULE MCUserMode -----------------------------
(* Tables of eight entries, two nodes with a core each.  The images cover  *)
(* programs at an offset and not, headers that start in the middle of a    *)
(* page and span pages, two data headers in a page, and relocations in     *)
(* both kinds of headers.                                                  *)
EXTENDS UserMode

W(i) == <<"word", i>>
Words(from, n) == [i \in 1 .. n |-> W(from + i)]

Hdr(vaddr, memsz, filesz, w, x) ==
  [vaddr |-> vaddr, memsz |-> memsz, data |-> Words(vaddr, filesz), w |-> w, x |-> x]

Rel(offset, addend) == [offset |-> offset, addend |-> addend]

Image(pie, headers, relocs) ==
  [pie |-> pie, entry |-> 1, headers |-> headers, relocs |-> relocs, tls |-> headers[1].vaddr]

Candidates ==
  {Image(pie, <<Hdr(0, t, t, FALSE, TRUE)>> \o ro \o data, relocs) :
     pie \in BOOLEAN, t \in {3, 9},
     ro \in {<< >>, <<Hdr(18, 5, 5, FALSE, FALSE)>>},
     data \in {<<Hdr(24, 4, 3, TRUE, FALSE)>>, <<Hdr(29, 7, 6, TRUE, FALSE)>>,
               <<Hdr(31, 3, 2, TRUE, FALSE)>>,
               <<Hdr(24, 2, 2, TRUE, FALSE), Hdr(27, 3, 2, TRUE, FALSE)>>},
     relocs \in {<< >>, <<Rel(0, 5), Rel(2, 24)>>, <<Rel(1, 24), Rel(30, 2)>>,
                 <<Rel(25, 1)>>, <<Rel(31, 1)>>}}

(* What is relocated is in the file.                                       *)
MCImages ==
  {e \in Candidates : \A r \in Range(e.relocs) : \E h \in Range(e.headers) :
     h.vaddr <= r.offset /\ r.offset < h.vaddr + Len(h.data)}

MCNodeOf == [c \in {0, 1} |-> c]
MCLargeFrames == [n \in {0, 1} |-> [i \in 1 .. 7 |-> 512 + (n * 128) + (8 * ((i * 3) % 8))]]
MCBaseFrames == [n \in {0, 1} |-> <<400 + (8 * n), 402 + (8 * n)>>]
MCRegions == {<<192, 9>>, <<208, 1>>}
MCDevices == {[base |-> 448, size |-> 1]}
MCBuffers == {<<397, 5>>, <<397, 6>>, <<383, 2>>, <<416, 2>>, <<1020, 4>>}

(* One image lives on; for the others loading is all there is to see.      *)
(* Interrupts are combined with calls on one core; with two cores there is *)
(* a third call only if both regions are being mapped.                     *)
Favourite == Image(TRUE, <<Hdr(0, 3, 3, FALSE, TRUE), Hdr(31, 3, 2, TRUE, FALSE)>>,
                   <<Rel(0, 5), Rel(2, 24)>>)

Interesting ==
  \/ spawn # "done"
  \/ /\ elf = Favourite
     /\ IF core[1].mode = "idle" THEN irqs + calls <= 2
        ELSE /\ irqs = 0
             /\ calls <= 2 \/ \A r \in Regions : Overlapping(r[1], 1)
=============================================================================
