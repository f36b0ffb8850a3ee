----------------------------- MODULE MCSymbols ------------------------------
(* A program, two libraries, of which one has a newer version and the other  *)
(* an executable segment that begins behind the beginning of its page, code  *)
(* that no file has, and data.  The symbols are not in the order of their    *)
(* addresses, two begin at the same one, and there is a hole between them.   *)
EXTENDS Symbols

Sym(name, under, at, size) ==
  [name |-> name, under |-> under, at |-> at, size |-> size]
File(path, lib, vaddr, syms) ==
  [path |-> path, exec |-> TRUE, readable |-> TRUE, lib |-> lib,
   vaddr |-> vaddr, syms |-> syms]

MCAttributes ==
  [exe |-> File("exe", FALSE, 0,
     <<Sym("main", FALSE, 2, 1), Sym("_start", TRUE, 0, 2),
       Sym("start", FALSE, 0, 2)>>),
   lib |-> File("lib.so", TRUE, 0,
     <<Sym("read", FALSE, 1, 3), Sym("_init", TRUE, 0, 1)>>),
   lib2 |-> File("lib.so", TRUE, 0, <<Sym("write", FALSE, 0, 2)>>),
   odd |-> File("odd.so", TRUE, 1, <<Sym("late", FALSE, 1, 2)>>),
   jit |-> [path |-> "", exec |-> TRUE, readable |-> FALSE, lib |-> FALSE,
            vaddr |-> 0, syms |-> <<>>],
   heap |-> [path |-> "[heap]", exec |-> FALSE, readable |-> FALSE,
             lib |-> FALSE, vaddr |-> 0, syms |-> <<>>]]
MCReplaced == [old |-> "lib", new |-> "lib2"]

\* The slots are 4-7 and 8-11; nothing is ever at 12 and above.
MCRecs == {<<>>, <<4, 7, 8>>, <<15, 16, 12>>}
MCSamples == {<<>>, <<<<4>>, <<13>>, <<5>>>>, <<<<13, 6>>, <<9, 4>>, <<10, 5>>>>,
              <<<<9>>, <<8>>, <<10>>, <<9, 13>>>>,
              <<<<12, 20>>, <<>>, <<14, 21>>, <<20>>>>}
MCPlacements == {<<0, 0, 0, 0>>, <<0, 1, 1, 1>>, <<1, -1, -1, 1>>, <<0, 0>>}
=============================================================================
