---------------------------- MODULE MCFileReader ----------------------------
(* Two sections and three keys; "ab" and "ba" have the same hash.  The
   hashes of the sections are equal modulo 3 and those of the keys modulo 2, so that
   tables of these sizes are probed.  Lines that are read as one hash like a section,
   or like no key.                                                                  *)
EXTENDS FileReader

MCHash ==
    [n \in Sections \cup Keys |->
        CASE n = "S" -> 1 [] n = "T" -> 4 [] n = "zero" -> 0 [] OTHER -> 2]
=============================================================================
