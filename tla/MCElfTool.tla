------------------------------ MODULE MCElfTool -----------------------------
(* TLC's instance of ElfToolStages: a few files of two or three sections. *)
EXTENDS ElfToolStages

Other == [type |-> "other", link |-> 0, entsize |-> 0, symbols |-> {}]
Symtab(link, entsize, symbols) ==
  [type |-> "symtab", link |-> link, entsize |-> entsize, symbols |-> symbols]
Rel(link, entsize) == [type |-> "rel", link |-> link, entsize |-> entsize, symbols |-> {}]

Sections(s1, s2) == [i \in 0 .. MaxSection |-> CASE i = 1 -> s1 [] i = 2 -> s2 [] OTHER -> Other]

FileOf(format, shstrndx, shnum, sections) ==
  [format |-> format, e_shstrndx |-> shstrndx, e_shnum |-> shnum, section |-> sections]

Linked == [Other EXCEPT !.link = 3]

Tables == {Other, Linked, Symtab(1, 1, {0, 1, 3}), Symtab(0, 0, {}), Symtab(2, 1, {2}), Rel(1, 1), Rel(2, 1), Rel(0, 0)}

SomeFiles ==
  {FileOf(format, 0, 0, Sections(Other, Other)) : format \in {"empty", "short", "other"}}
    \cup {FileOf(format, i, 2, Sections(Symtab(1, 1, {0, 1, 3}), Rel(1, 1))) :
            format \in {"other", "elf64"}, i \in 0 .. 2}
    \cup {FileOf("elf32", i, n, Sections(s1, s2)) :
            i \in 0 .. 2, n \in {2, 3}, s1 \in Tables, s2 \in Tables}
=============================================================================
