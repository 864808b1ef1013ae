----------------------------- MODULE MCMachine -----------------------------
(***************************************************************************)
(* Small programs of the machine, in the bytes a ROM holds, for many       *)
(* operands, with the results they promise.                                *)
(***************************************************************************)
EXTENDS Machine, TLC

(* The handler, at 0x38: push psw; push h; lxi h, 2f0; inr m; pop h;       *)
(* pop psw; ei; ret.                                                       *)
Handler ==
  <<\hf5, \he5, \h21, \hf0, \h02, \h34, \he1, \hf1, \hfb, \hc9>>

(* Adds numbers of four decimal digits: di; lxi d, 200; lxi h, 202;        *)
(* mvi c, 2; xra a; ei; loop: ldax d; adc m; daa; stax d; inx h; inx d;    *)
(* dcr c; jnz loop; mvi a, 0; ral; stax d; di; hlt.                        *)
Decimal ==
  <<\hf3, \h11, \h00, \h02, \h21, \h02, \h02, \h0e, \h02, \haf, \hfb,
    \h1a, \h8e, \h27, \h12, \h23, \h13, \h0d, \hc2, \h0b, \h01, \h3e,
    \h00, \h17, \h12, \hf3, \h76>>

(* Multiplies two bytes: ei; ei; lda 200; lxi h, 201; mov e, m; lxi h, 0;  *)
(* mov d, h; mvi b, 8; loop: dad h; ral; jnc next; dad d; next: dcr b;     *)
(* jnz loop; shld 202; di; hlt.                                            *)
Multiply ==
  <<\hfb, \hfb, \h3a, \h00, \h02, \h21, \h01, \h02, \h5e, \h21, \h00,
    \h00, \h54, \h06, \h08, \h29, \h17, \hd2, \h15, \h01, \h19, \h05,
    \hc2, \h0f, \h01, \h22, \h02, \h02, \hf3, \h76>>

(* The greatest common divisor: ei; lda 200; mov b, a; lda 201; call gcd;  *)
(* sta 202; di; hlt; gcd: cmp b; rz; cc swap; sub b; jmp gcd; swap: mov c, a;*)
(* mov a, b; mov b, c; ret.                                                *)
Gcd ==
  <<\hfb, \h3a, \h00, \h02, \h47, \h3a, \h01, \h02, \hcd, \h10, \h01,
    \h32, \h02, \h02, \hf3, \h76, \hb8, \hc8, \hdc, \h19, \h01, \h90,
    \hc3, \h10, \h01, \h4f, \h78, \h41, \hc9>>

(* Waits for two frames: mvi b, 2; wait: ei; hlt; dcr b; jnz wait; ei; ei; *)
(* di; hlt.                                                                *)
Wait ==
  <<\h06, \h02, \hfb, \h76, \h05, \hc2, \h02, \h01, \hfb, \hfb, \hf3, \h76>>

(* Pushes a word into a page of the RAM disk and reads it back in the      *)
(* window, the stack put aside: lhld 200; ei; mov b, h; mov c, l; di;      *)
(* lxi h, 0; dad sp; xchg; mvi a, <stack>; out 10; lxi sp, a004; push b;   *)
(* push psw; mvi a, <window>; out 10; lhld a002; mvi a, 0; out 10; xchg;   *)
(* sphl; ei; xchg; shld 202; di; hlt.                                      *)
Page(page) ==
  <<\h2a, \h00, \h02, \hfb, \h44, \h4d, \hf3, \h21, \h00, \h00, \h39,
    \heb, \h3e, \h10 + (4 * (page - 1)), \hd3, \h10, \h31, \h04, \ha0,
    \hc5, \hf5, \h3e, \h20 + (page - 1), \hd3, \h10, \h2a, \h02, \ha0,
    \h3e, \h00, \hd3, \h10, \heb, \hf9, \hfb, \heb, \h22, \h02, \h02,
    \hf3, \h76>>

(* Stores the flags of a difference and the difference: lda 200;           *)
(* lxi h, 201; ei; sub m; push psw; pop h; shld 202; di; hlt.              *)
Compare ==
  <<\h3a, \h00, \h02, \h21, \h01, \h02, \hfb, \h96, \hf5, \he1, \h22,
    \h02, \h02, \hf3, \h76>>

(* A program at 0x100, the bytes of its operands from 0x200 on, and the    *)
(* cells it and the handler use besides.                                   *)
At(addr, bytes) == [cell \in addr..(addr + Len(bytes) - 1) |-> bytes[cell - addr + 1]]
InPage(page, addr) == (page * AddressSpace) + addr
Rom(code, operands) ==
  At(\h0, <<\hc3, \h00, \h01>>) @@ At(\h38, Handler) @@ At(\h100, code)
  @@ At(\h200, operands) @@ At(\h2f0, <<0>>)
  @@ [cell \in (\hc2f0..\hc2ff) \cup {InPage(page, addr) :
                 page \in {0} \cup KvazPages, addr \in \ha000..\ha003} |-> 0]

Load(code, operands, expect_) == [rom |-> Rom(code, operands), expect |-> expect_]
Bytes(word) == <<word % 256, word \div 256>>
Exactly(addr, bytes) == [cell \in DOMAIN At(addr, bytes) |-> {At(addr, bytes)[cell]}]

Bcd(n) == LET two == n % 100 IN (16 * (two \div 10)) + (two % 10)
Digits(n) == <<Bcd(n), Bcd(n \div 100)>>
Divisors(n) == {d \in 1..n : n % d = 0}
MaxOf(set) == CHOOSE n \in set : \A m \in set : m <= n
FlagsOf(a, b) ==
  LET diff == (a - b) % 256
      ones == Cardinality({i \in 0..7 : (diff \div (2 ^ i)) % 2 = 1})
  IN (IF diff >= 128 THEN 128 ELSE 0) + (IF diff = 0 THEN 64 ELSE 0)
     + (IF a % 16 >= b % 16 THEN 16 ELSE 0) + (IF ones % 2 = 0 THEN 4 ELSE 0) + 2
     + (IF a < b THEN 1 ELSE 0)

Numbers == {0, 1, 9, 10, 99, 100, 999, 1995, 4567, 5433, 9990, 9999}
Factors == {0, 1, 2, 37, 127, 128, 141, 255}
Edges == {0, 1, 7, 8, 9, 15, 16, 127, 128, 129, 240, 255}

MCPrograms ==
  {Load(Decimal, Digits(m) \o Digits(n),
        Exactly(\h200, Digits((m + n) % 10000) \o <<(m + n) \div 10000>>)) :
     m \in Numbers, n \in Numbers}
  \cup {Load(Multiply, <<m, n, 0, 0>>, Exactly(\h202, Bytes(m * n))) :
     m \in Factors, n \in Factors}
  \cup {Load(Gcd, <<m, n, 0>>, Exactly(\h202, <<MaxOf(Divisors(m) \cap Divisors(n))>>)) :
     m \in {1, 5, 7, 12, 20}, n \in {1, 5, 8, 12, 20}}
  \cup {Load(Wait, <<0>>, [cell \in {\h2f0} |-> {2, 3}])}
  \cup {Load(Page(page), Bytes(word) \o <<0, 0>>,
             Exactly(\h202, Bytes(word)) @@ Exactly(\ha002, <<0, 0>>)
             @@ Exactly(InPage(page, \ha002), Bytes(word))) :
     page \in KvazPages, word \in {\h1234, \hff80}}
  \cup {Load(Compare, <<a, b, 0, 0>>, Exactly(\h202, <<FlagsOf(a, b), (a - b) % 256>>)) :
     a \in Edges, b \in Edges}
=============================================================================
