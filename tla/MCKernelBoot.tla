---------------------------- MODULE MCKernelBoot ----------------------------
(* Tables of four entries; 114 pages of memory on two nodes or 96 on one.   *)
EXTENDS KernelBoot

Runs(list) == FlattenSeq([i \in 1 .. Len(list) |-> [j \in 1 .. list[i][2] |-> list[i][1]]])
Memory(list) == [p \in 0 .. Len(Runs(list)) - 1 |-> Runs(list)[p + 1]]

Simple == Memory(<< <<"CONVENTIONAL", 2>>, <<"RESERVED", 1>>, <<"CONVENTIONAL", 61>>,
                    <<"BOOT_SERVICES_DATA", 3>>, <<"MMIO", 2>>, <<"RUNTIME_SERVICES_CODE", 1>>,
                    <<"CONVENTIONAL", 44>> >>)
Split == Memory(<< <<"CONVENTIONAL", 2>>, <<"LOADER_CODE", 1>>, <<"BOOT_SERVICES_DATA", 2>>,
                   <<"CONVENTIONAL", 7>>, <<"LOADER_DATA", 2>>, <<"CONVENTIONAL", 50>>,
                   <<"MMIO", 6>>, <<"CONVENTIONAL", 26>> >>)

File(name, size, len, directory) ==
  [name |-> name, size |-> size, len |-> len, directory |-> directory]
Files == <<File("EFI", 0, 3, TRUE), File("cmdline.in", 1, 10, FALSE),
           File("kernel", 2, 6, FALSE), File("init", 1, 4, FALSE)>>
NoKernel == <<File("EFI", 0, 3, TRUE), File("cmdline.in", 1, 10, FALSE),
              File("BootX64.efi", 1, 10, FALSE), File("init", 1, 32, FALSE)>>

Segment(base, size, filesz, flags, relocs, align) ==
  [base |-> base, size |-> size, filesz |-> filesz, flags |-> flags, relocs |-> relocs,
   align |-> align]
Elf == <<Segment(0, 2, 2, {"R"}, {}, 2), Segment(2, 2, 2, {"R", "X"}, {}, 2),
         Segment(4, 3, 2, {"R", "W"}, {0}, 4)>>

TwoNodes == <<[node |-> 0, range |-> <<0, 46>>], [node |-> 1, range |-> <<46, 128>>]>>

Pmem == <<Frame(96, 24, 0)>>

MCMachines ==
  {[types |-> Simple, files |-> Files, elf |-> Elf, affinity |-> TwoNodes, nodes |-> 2,
    frame_buffer |-> 67, pmem |-> << >>, cores |-> <<2, 2>>],
   [types |-> Simple, files |-> NoKernel, elf |-> Elf, affinity |-> TwoNodes, nodes |-> 2,
    frame_buffer |-> 67, pmem |-> << >>, cores |-> << >>],
   [types |-> Split, files |-> Files, elf |-> Elf, affinity |-> << >>, nodes |-> 1,
    frame_buffer |-> NoBase, pmem |-> Pmem, cores |-> <<1>>]}
=============================================================================
