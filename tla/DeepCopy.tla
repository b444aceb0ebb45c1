------------------------------ MODULE DeepCopy ------------------------------
(***************************************************************************)
(* The deep copies of the API types, on a heap: informers share what they  *)
(* cache with every reader, and a reader that wants to write to an object  *)
(* writes to a copy.  A slice or map is a cell, a struct is a record that  *)
(* refers to cells; what a cell or a struct says beyond that is a number.  *)
(***************************************************************************)
EXTENDS SequencesExt

CONSTANTS
  Holders,      \* variables that hold a list of crypts
  Decoded,      \* lists as a reflector decodes them: root, cells and sorts
  MaxCopies,    \* bound of the copies
  MaxWrites     \* bound of the writes

Nil == 0        \* a reference that is nil, or the address of a cell

-----------------------------------------------------------------------------
(* The Go types.  place[a] is the holder that owns cell a, and the sort of *)
(* the cell: a map or slice of strings, a slice of definitions, of crypts. *)

Sorts == {"word", "definitions", "crypts"}
Refs(place, v, sort) == {Nil} \cup {a \in DOMAIN place : place[a] = <<v, sort>>}

SecretDefinitions(place, v) ==
  [says : 0..1, labels : Refs(place, v, "word"),
                annotations : Refs(place, v, "word")]
Crypts(place, v) ==
  [says : 0..1, meta : Refs(place, v, "word"),
                secrets : Refs(place, v, "definitions"),
                namespaces : Refs(place, v, "word")]
CryptLists(place, v) == [says : 0..1, items : Refs(place, v, "crypts")]

\* Every cell holds what its sort says, and refers to cells of its owner only.
Fits(h, place, a, v) ==
  /\ place[a] = <<v, "word">> => h[a] \in 0..1
  /\ place[a] = <<v, "definitions">> => h[a] \in Seq(SecretDefinitions(place, v))
  /\ place[a] = <<v, "crypts">> => h[a] \in Seq(Crypts(place, v))

Laid(h, place) ==
  /\ Len(h) \in Nat /\ h = [a \in 1..Len(h) |-> h[a]]
  /\ place \in Seq(Holders \X Sorts) /\ Len(place) = Len(h)
  /\ \A a \in 1..Len(h), v \in Holders : Fits(h, place, a, v)

Places(l, v) == [a \in 1..Len(l.sorts) |-> <<v, l.sorts[a]>>]

ASSUME DecodedAssumption == \A l \in Decoded, v \in Holders :
  Laid(l.heap, Places(l, v)) /\ l.root \in CryptLists(Places(l, v), v)
-----------------------------------------------------------------------------
VARIABLES
  heap,         \* the cells, in the order of their allocation
  root,         \* root[v]: the CryptList in v
  last,         \* the last step, and the holders it read and wrote
  copies, writes

dcVars == <<heap, root, last, copies, writes>>

Step(op, from, to) == [op |-> op, from |-> from, to |-> to]

\* A reflector has decoded a list; the other holders are empty.
DCInit ==
  /\ \E l \in Decoded, v \in Holders :
       /\ heap = l.heap
       /\ root = [w \in Holders |-> IF w = v THEN l.root
                                    ELSE [says |-> 0, items |-> Nil]]
       /\ last = Step("list", v, v)
  /\ copies = 0
  /\ writes = 0
-----------------------------------------------------------------------------
\* Copies yield the heap they leave and the value, or reference, copied.
Yield(h, value) == [heap |-> h, value |-> value]

\* Mutant of CopyCell: an empty map or slice takes the place of nil.
CopyCellNonNil(h, ref) ==
  Yield(Append(h, IF ref = Nil THEN 0 ELSE h[ref]), Len(h) + 1)

\* A map, or a slice of strings.
CopyCell(h, ref) ==
  IF ref = Nil THEN Yield(h, Nil) ELSE Yield(Append(h, h[ref]), Len(h) + 1)

\* A slice of structs: one element after the other, then the slice.
Extended(done, copy) == Yield(copy.heap, Append(done.value, copy.value))
Allocated(all) == Yield(Append(all.heap, all.value), Len(all.heap) + 1)

\* Mutant of CopySecretDefinition: the annotations are copied by assignment.
CopySecretDefinitionShallow(h, d) ==
  LET labels == CopyCell(h, d.labels) IN
  Yield(labels.heap, [d EXCEPT !.labels = labels.value])

CopySecretDefinition(h, d) ==
  LET labels == CopyCell(h, d.labels)
      annotations == CopyCell(labels.heap, d.annotations)
  IN Yield(annotations.heap, [d EXCEPT !.labels = labels.value,
                                       !.annotations = annotations.value])

EachDefinition(h, s) ==
  LET done[n \in 0..Len(s)] ==
        IF n = 0 THEN Yield(h, <<>>)
        ELSE Extended(done[n - 1], CopySecretDefinition(done[n - 1].heap, s[n]))
  IN done[Len(s)]

CopySecrets(h, ref) ==
  IF ref = Nil THEN Yield(h, Nil) ELSE Allocated(EachDefinition(h, h[ref]))

CopySpec(h, c) ==
  LET secrets == CopySecrets(h, c.secrets)
      namespaces == CopyCell(secrets.heap, c.namespaces)
  IN Yield(namespaces.heap, [c EXCEPT !.secrets = secrets.value,
                                      !.namespaces = namespaces.value])

\* The status is empty and ObjectMeta stands for all of its maps and slices.
CopyCrypt(h, c) ==
  LET meta == CopyCell(h, c.meta)
      spec == CopySpec(meta.heap, c)
  IN Yield(spec.heap, [spec.value EXCEPT !.meta = meta.value])

EachCrypt(h, s) ==
  LET done[n \in 0..Len(s)] ==
        IF n = 0 THEN Yield(h, <<>>)
        ELSE Extended(done[n - 1], CopyCrypt(done[n - 1].heap, s[n]))
  IN done[Len(s)]

CopyItems(h, ref) ==
  IF ref = Nil THEN Yield(h, Nil) ELSE Allocated(EachCrypt(h, h[ref]))

CopyCryptList(h, l) ==
  LET items == CopyItems(h, l.items)
  IN Yield(items.heap, [l EXCEPT !.items = items.value])

DeepCopy(from, to) ==
  /\ copies < MaxCopies /\ from # to
  /\ LET c == CopyCryptList(heap, root[from]) IN
     heap' = c.heap /\ root' = [root EXCEPT ![to] = c.value]
  /\ last' = Step("copy", from, to)
  /\ copies' = copies + 1
  /\ UNCHANGED writes
-----------------------------------------------------------------------------
Elements(ref) == IF ref = Nil THEN {} ELSE ToSet(heap[ref])

\* The structs a holder reaches, the cells of maps and strings, and the slices
\* of structs.
CryptsIn(v) == Elements(root[v].items)
DefinitionsIn(v) == UNION {Elements(c.secrets) : c \in CryptsIn(v)}
Words(v) ==
  ({c.meta : c \in CryptsIn(v)} \cup {c.namespaces : c \in CryptsIn(v)} \cup
   {d.labels : d \in DefinitionsIn(v)} \cup
   {d.annotations : d \in DefinitionsIn(v)}) \ {Nil}
Slices(v) == ({root[v].items} \cup {c.secrets : c \in CryptsIn(v)}) \ {Nil}

\* Who holds a list writes to a field of it, or to an entry of a map or slice.
Write(v) ==
  /\ writes < MaxWrites
  /\ \/ root' = [root EXCEPT ![v].says = 1 - @] /\ UNCHANGED heap
     \/ \E a \in Words(v) : heap' = [heap EXCEPT ![a] = 1 - @] /\ UNCHANGED root
     \/ \E a \in Slices(v) : \E i \in DOMAIN heap[a] :
          heap' = [heap EXCEPT ![a][i].says = 1 - @] /\ UNCHANGED root
  /\ last' = Step("write", v, v)
  /\ writes' = writes + 1
  /\ UNCHANGED copies

DCNext ==
  \/ \E v, w \in Holders : DeepCopy(v, w)
  \/ \E v \in Holders : Write(v)

DCSpec == DCInit /\ [][DCNext]_dcVars
-----------------------------------------------------------------------------
(* Properties. *)

\* What a reader of a list sees: the list with its references followed.
Nothing == <<>>
Seen(h, ref) == IF ref = Nil THEN Nothing ELSE <<h[ref]>>
SeenDefinition(h, d) == <<d.says, Seen(h, d.labels), Seen(h, d.annotations)>>
SeenSecrets(h, ref) ==
  IF ref = Nil THEN Nothing
  ELSE <<[i \in DOMAIN h[ref] |-> SeenDefinition(h, h[ref][i])]>>
SeenCrypt(h, c) ==
  <<c.says, Seen(h, c.meta), SeenSecrets(h, c.secrets), Seen(h, c.namespaces)>>
SeenItems(h, ref) ==
  IF ref = Nil THEN Nothing
  ELSE <<[i \in DOMAIN h[ref] |-> SeenCrypt(h, h[ref][i])]>>
View(h, l) == <<l.says, SeenItems(h, l.items)>>

\* A copy says what the original says, nil where it is nil.
CopiesAreEqual ==
  last.op = "copy" => View(heap, root[last.from]) = View(heap, root[last.to])

\* A copy and its original share nothing: whatever is written to the one, and
\* whatever is copied to it, the other reads as before.
CopiesAreIndependent ==
  [][\A v \in Holders :
       v # last'.to => View(heap, root[v])' = View(heap, root[v])]_dcVars
=============================================================================
