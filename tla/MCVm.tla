-------------------------------- MODULE MCVm --------------------------------
EXTENDS Vm

\* text that ends inside its page, bss, and an empty segment below it
TextAndBss ==
  {<<[vaddr |-> 0, memsz |-> 1, filesz |-> 1, w |-> FALSE],
     [vaddr |-> 2, memsz |-> 1, filesz |-> 0, w |-> TRUE],
     [vaddr |-> 0, memsz |-> 0, filesz |-> 0, w |-> TRUE]>>}

\* so that sizes often end inside a page
ByThree == {-3, 3}
=============================================================================
