---------------------------- MODULE MCExceptions ----------------------------
(***************************************************************************)
(* The inputs of the recognizer runs.  The instructions are those the      *)
(* comments of lines 1064-1476 show, with their bytes and what DR's        *)
(* decoder returns for them (Intel operand order, immediates and           *)
(* displacements as signed 32-bit values), and near misses that differ     *)
(* from one of them in one operand.  Addresses: two TLS slots at 0..7,     *)
(* four expansion slots at 8..23, the tool's library at 24..25, a heap at  *)
(* 26..27, plain memory at 28..31 of which 31 is unreadable.               *)
(***************************************************************************)
EXTENDS Exceptions

NoOp == [k |-> "none"]
R(r, sz) == [k |-> "reg", reg |-> r, size |-> sz]
MIdx(b, i, s, d) == [k |-> "mem", base |-> b, index |-> i, scale |-> s, disp |-> d]
M(b, d) == MIdx(b, "null", 0, d)
Imm(v) == [k |-> "imm", val |-> v]
Ins(opc, d0, s0, s1, bytes) ==
  [opc |-> opc, valid |-> TRUE, dst0 |-> d0, src0 |-> s0, src1 |-> s1, bytes |-> bytes]

\* 85 01: test [ecx],eax
F_test_ecx == Ins("test", NoOp, M("ecx", 0), R("eax", 4), <<133, 1>>)
\* 85 00: test [eax],eax
F_test_eax == Ins("test", NoOp, M("eax", 0), R("eax", 4), <<133, 0>>)
\* 85 02: test [edx],eax
F_test_edx == Ins("test", NoOp, M("edx", 0), R("eax", 4), <<133, 2>>)
\* 8b 00: mov eax,[eax]
F_mov_eax_eax == Ins("mov_ld", R("eax", 4), M("eax", 0), NoOp, <<139, 0>>)
\* 83 09 00: or dword [ecx],0x0
F_or_ecx_0 == Ins("or", M("ecx", 0), Imm(0), M("ecx", 0), <<131, 9, 0>>)
\* 83 09 01: or dword [ecx],0x1
F_or_ecx_1 == Ins("or", M("ecx", 0), Imm(1), M("ecx", 0), <<131, 9, 1>>)
\* 8b 01: mov eax,[ecx]
F_mov_eax_ecx == Ins("mov_ld", R("eax", 4), M("ecx", 0), NoOp, <<139, 1>>)
\* 8b 41 fc: mov eax,[ecx-0x4]
F_mov_eax_ecx_m4 == Ins("mov_ld", R("eax", 4), M("ecx", -4), NoOp, <<139, 65, 252>>)
\* 8b 41 08: mov eax,[ecx+0x8]
F_mov_eax_ecx_p8 == Ins("mov_ld", R("eax", 4), M("ecx", 8), NoOp, <<139, 65, 8>>)
\* 8b 04 11: mov eax,[ecx+edx]
F_mov_eax_ecx_edx == Ins("mov_ld", R("eax", 4), MIdx("ecx", "edx", 1, 0), NoOp, <<139, 4, 17>>)
\* 8b 06: mov eax,[esi]
F_mov_eax_esi == Ins("mov_ld", R("eax", 4), M("esi", 0), NoOp, <<139, 6>>)
\* 8b 16: mov edx,[esi]
F_mov_edx_esi == Ins("mov_ld", R("edx", 4), M("esi", 0), NoOp, <<139, 22>>)
\* 8b 0b: mov ecx,[ebx]
F_mov_ecx_ebx == Ins("mov_ld", R("ecx", 4), M("ebx", 0), NoOp, <<139, 11>>)
\* 8b 08: mov ecx,[eax]
F_mov_ecx_eax == Ins("mov_ld", R("ecx", 4), M("eax", 0), NoOp, <<139, 8>>)
\* 8b 0a: mov ecx,[edx]
F_mov_ecx_edx == Ins("mov_ld", R("ecx", 4), M("edx", 0), NoOp, <<139, 10>>)
\* 66 8b 08: mov cx,[eax]
F_mov_cx_eax == Ins("mov_ld", R("cx", 2), M("eax", 0), NoOp, <<102, 139, 8>>)
\* 3d 00 10 00 00: cmp eax,0x1000
N_cmp_eax == Ins("cmp", NoOp, R("eax", 4), Imm(4096), <<61, 0, 16, 0, 0>>)
\* 81 f9 00 10 00 00: cmp ecx,0x1000
N_cmp_ecx == Ins("cmp", NoOp, R("ecx", 4), Imm(4096), <<129, 249, 0, 16, 0, 0>>)
\* 2d 00 10 00 00: sub eax,0x1000
N_sub_eax == Ins("sub", R("eax", 4), Imm(4096), R("eax", 4), <<45, 0, 16, 0, 0>>)
\* 8b e1: mov esp,ecx
N_mov_esp_ecx == Ins("mov_ld", R("esp", 4), R("ecx", 4), NoOp, <<139, 225>>)
\* 94: xchg eax,esp
N_xchg_eax_esp == Ins("xchg", R("esp", 4), R("esp", 4), R("eax", 4), <<148>>)
\* eb e9: jmp short
N_jmp_short == Ins("jmp_short", NoOp, NoOp, NoOp, <<235, 233>>)
\* 50: push eax
N_push_eax == Ins("push", R("esp", 4), R("eax", 4), R("esp", 4), <<80>>)
\* ba ff fe fe 7e: mov edx,0x7efefeff
N_mov_edx_7e == Ins("mov_imm", R("edx", 4), Imm(C_0x7efefeff), NoOp, <<186, 255, 254, 254, 126>>)
\* ba ff fe fe fe: mov edx,0xfefefeff
N_mov_edx_fe == Ins("mov_imm", R("edx", 4), Imm(C_0xfefefeff), NoOp, <<186, 255, 254, 254, 254>>)
\* bf ff fe fe 7e: mov edi,0x7efefeff
N_mov_edi_7e == Ins("mov_imm", R("edi", 4), Imm(C_0x7efefeff), NoOp, <<191, 255, 254, 254, 126>>)
\* 84 c0: test al,al
N_test_al == Ins("test", NoOp, R("al", 1), R("al", 1), <<132, 192>>)
\* 03 d0: add edx,eax
N_add_edx_eax == Ins("add", R("edx", 4), R("eax", 4), R("edx", 4), <<3, 208>>)
\* 83 c6 04: add esi,0x4
N_add_esi_4 == Ins("add", R("esi", 4), Imm(4), R("esi", 4), <<131, 198, 4>>)
\* 89 ca: mov edx,ecx
N_mov_edx_ecx == Ins("mov_st", R("edx", 4), R("ecx", 4), NoOp, <<137, 202>>)
\* 31 d1: xor ecx,edx
N_xor_ecx_edx == Ins("xor", R("ecx", 4), R("edx", 4), R("ecx", 4), <<49, 209>>)
\* ff ff: an invalid encoding
N_invalid == [Ins("invalid", NoOp, NoOp, NoOp, <<255, 255>>) EXCEPT !.valid = FALSE]
\* 74 32: jz +0x32
A_jz_32 == Ins("jz", NoOp, NoOp, NoOp, <<116, 50>>)
\* 74 30: jz +0x30
A_jz_30 == Ins("jz", NoOp, NoOp, NoOp, <<116, 48>>)
\* 8d 81 ff fe fe fe: lea eax,[ecx+0xfefefeff]
A_lea == Ins("lea", R("eax", 4), M("ecx", C_0xfefefeff), NoOp, <<141, 129, 255, 254, 254, 254>>)
\* bf ff fe fe fe: mov edi,0xfefefeff
A_mov_edi_fe == Ins("mov_imm", R("edi", 4), Imm(C_0xfefefeff), NoOp, <<191, 255, 254, 254, 254>>)
\* 90: nop
A_nop == Ins("nop", NoOp, NoOp, NoOp, <<144>>)

\* 2d 00 10 00 00: the end of sub eax,0x1000
P_sub_eax == <<45, 0, 16, 0, 0>>
\* ba ff fe fe 7e: the end of mov edx,0x7efefeff
P_mov_edx_7e == <<186, 255, 254, 254, 126>>
\* 83 f0 ff 33 c2: the end of xor eax,0xffffffff; xor eax,edx
P_xor_seq == <<131, 240, 255, 51, 194>>
\* c0 04 85 00 94: the end of add eax,0x4; test [eax],eax; xchg eax,esp
P_xchg == <<192, 4, 133, 0, 148>>
\* 90 90 90 90 90: the end of nops
P_nops == <<144, 144, 144, 144, 144>>

MCFaults == {F_test_ecx, F_test_eax, F_test_edx, F_mov_eax_eax, F_or_ecx_0, F_or_ecx_1, F_mov_eax_ecx, F_mov_eax_ecx_m4, F_mov_eax_ecx_p8, F_mov_eax_ecx_edx, F_mov_eax_esi, F_mov_edx_esi, F_mov_ecx_ebx, F_mov_ecx_eax, F_mov_ecx_edx, F_mov_cx_eax}
MCNexts == {N_cmp_eax, N_cmp_ecx, N_sub_eax, N_mov_esp_ecx, N_xchg_eax_esp, N_jmp_short, N_push_eax, N_mov_edx_7e, N_mov_edx_fe, N_mov_edi_7e, N_test_al, N_add_edx_eax, N_add_esi_4, N_mov_edx_ecx, N_xor_ecx_edx, N_invalid}
MCAfters == {A_jz_32, A_jz_30, A_lea, A_mov_edi_fe, A_nop}
MCPres == {P_sub_eax, P_mov_edx_7e, P_xor_seq, P_xchg, P_nops}

(* The sequences the comments show, and whether each is a stack probe.    *)
MCDocumented ==
  { [code |-> <<P_sub_eax, F_test_ecx, N_cmp_eax, A_nop>>, probe |-> TRUE],        \* chkstk.asm 76-82
    [code |-> <<P_nops, F_test_ecx, N_mov_esp_ecx, A_nop>>, probe |-> TRUE],       \* chkstk.asm 85-90
    [code |-> <<P_nops, F_test_eax, N_xchg_eax_esp, A_nop>>, probe |-> TRUE],      \* ntdll!_alloca_probe
    [code |-> <<P_xchg, F_mov_eax_eax, N_push_eax, A_nop>>, probe |-> TRUE],       \* ntdll retaddr shift
    [code |-> <<P_nops, F_or_ecx_0, N_sub_eax, A_nop>>, probe |-> TRUE],           \* cygwin1!alloca
    [code |-> <<P_sub_eax, F_test_eax, N_jmp_short, A_nop>>, probe |-> TRUE],      \* gap.exe
    [code |-> <<P_nops, F_mov_eax_ecx, N_mov_edx_7e, A_nop>>, probe |-> FALSE],    \* strlen.asm 81
    [code |-> <<P_nops, F_mov_eax_ecx_m4, N_test_al, A_jz_32>>, probe |-> FALSE],  \* strlen.asm 90
    [code |-> <<P_mov_edx_7e, F_mov_eax_esi, N_add_edx_eax, A_nop>>, probe |-> FALSE], \* gap strlen
    [code |-> <<P_xor_seq, F_mov_edx_esi, N_add_esi_4, A_nop>>, probe |-> FALSE],  \* gap strlen
    [code |-> <<P_nops, F_mov_ecx_ebx, N_mov_edx_ecx, A_lea>>, probe |-> FALSE],   \* cygwin1!strcpy
    [code |-> <<P_nops, F_mov_ecx_eax, N_mov_edx_fe, A_nop>>, probe |-> FALSE],    \* rawmemchr
    [code |-> <<P_nops, F_mov_ecx_eax, N_xor_ecx_edx, A_mov_edi_fe>>, probe |-> FALSE], \* strchr
    [code |-> <<P_nops, F_mov_ecx_edx, N_mov_edi_7e, A_nop>>, probe |-> FALSE] }   \* Windows strchr

(* A load no pattern covers, a strlen load and a stack probe.              *)
MCEnvCodes ==
  { <<P_nops, F_mov_eax_ecx_p8, N_add_edx_eax, A_nop>>,
    <<P_nops, F_mov_eax_ecx, N_mov_edx_7e, A_nop>>,
    <<P_sub_eax, F_test_ecx, N_cmp_eax, A_nop>> }
=============================================================================
