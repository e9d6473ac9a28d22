---------------------------- MODULE NodeCipher ----------------------------
(***************************************************************************)
(* What common/src/hash.c, aes_prf.c, sha256.c and cuda/blake3_node.cuh     *)
(* feed to the three label hashes.  Each hash exists more than once (two    *)
(* instruction sets, one and four chains, CPU and GPU), a build holds only  *)
(* one of the variants, and all of them must make the same labels.          *)
(*                                                                          *)
(* Memory is cut into pieces of 16 bytes, opaque except the one that holds  *)
(* the node index.  A 32-byte string is a pair of pieces, a hash a term     *)
(* that records what was absorbed, in which order and under which key; two  *)
(* labels are the same bytes when their terms are equal.  The arithmetic of *)
(* a round is not modelled, which rounds run on which words is: a round     *)
(* sequence equal to that of the standard is replaced by the standard's     *)
(* name.                                                                    *)
(***************************************************************************)
EXTENDS Integers, Sequences

CONSTANT Radix          \* the values of a byte: 256

ASSUME RadixAssumption == Radix \in Nat \ {0, 1}

NULL   == <<>>          \* a null pointer
Zero   == <<"zero">>    \* 16 zero bytes
Zero32 == <<Zero, Zero>>

OrZero(p) == IF p = NULL THEN Zero32 ELSE p

\* v >> 8 * k, for k \in 0 .. 7.
Shifted(v) ==
  LET shift[k \in 0 .. 7] == IF k = 0 THEN v ELSE shift[k - 1] \div Radix
  IN  shift

\* Mutation of IndexBytes: little-endian.
MutIndexBytes(i) == [b \in 1 .. 8 |-> Shifted(i)[b - 1] % Radix]

\* The node index at the start of a message, big-endian.
IndexBytes(i) == [b \in 1 .. 8 |-> Shifted(i)[8 - b] % Radix]

\* A run of rounds, by name when it is the standard's.
Named(rounds, standard, name) == IF rounds = standard THEN <<name>> ELSE rounds

----------------------------------------------------------------------------
(* AES-128: one block is a sequence of AddRoundKey r, SubBytes+ShiftRows    *)
(* and MixColumns.                                                          *)

Ark(r) == <<"ARK", r>>
Sub    == <<"SUB", 0>>
Mix    == <<"MIX", 0>>

\* FIPS 197: key 0, nine full rounds, a last one without MixColumns.
Fips197 ==
  LET full[r \in 0 .. 9] == IF r = 0 THEN <<Ark(0)>>
                            ELSE full[r - 1] \o <<Sub, Mix, Ark(r)>>
  IN  full[9] \o <<Sub, Ark(10)>>

\* vaeseq_u8 adds its key before SubBytes, vaesmcq_u8 is MixColumns.  Each of the
\* two functions spells its rounds out: AR in cbc_mac_single, AR8 in cbc_mac_4x2.
Aese(r) == <<Ark(r), Sub>>

ArmRounds ==
  LET full[r \in 0 .. 9] == IF r = 0 THEN <<>>
                            ELSE full[r - 1] \o Aese(r - 1) \o <<Mix>>
  IN  full[9] \o Aese(9) \o <<Ark(10)>>

ArmRounds4 ==
  LET full[r \in 0 .. 9] == IF r = 0 THEN <<>>
                            ELSE full[r - 1] \o Aese(r - 1) \o <<Mix>>
  IN  full[9] \o Aese(9) \o <<Ark(10)>>

\* _mm_aesenc_si128 and _mm_aesenclast_si128 add theirs at the end; key 0 is a xor
\* of its own in cbc_mac_single and part of the CBC xor in cbc_mac_4x2.
Aesenc(r)     == <<Sub, Mix, Ark(r)>>
Aesenclast(r) == <<Sub, Ark(r)>>

X86Rounds ==
  <<Ark(0)>> \o Aesenc(1) \o Aesenc(2) \o Aesenc(3) \o Aesenc(4) \o Aesenc(5)
    \o Aesenc(6) \o Aesenc(7) \o Aesenc(8) \o Aesenc(9) \o Aesenclast(10)

X86Rounds4 ==
  LET full[r \in 0 .. 9] == IF r = 0 THEN <<Ark(0)>>
                            ELSE full[r - 1] \o Aesenc(r)
  IN  full[9] \o Aesenclast(10)

\* The rounds of one chain, in cbc_mac_single and in cbc_mac_4x2.
AesRounds(arch) ==
  Named(IF arch = "arm" THEN ArmRounds ELSE X86Rounds, Fips197, "AES-128")

AesRounds4(arch) ==
  Named(IF arch = "arm" THEN ArmRounds4 ELSE X86Rounds4, Fips197, "AES-128")

\* The 11 round keys of a 16-byte key.
aes128_expand(k) == <<"round keys", k>>

AES_BLOCKS == 7

build_aes_msg(i, p0, p1, desc) == <<IndexBytes(i)>> \o OrZero(p0) \o OrZero(p1) \o desc

\* CBC-MAC: one chain from zero over the blocks of the message.
cbc_mac_single(arch, rk, msg) ==
  [rounds |-> AesRounds(arch), rk |-> rk, blocks |-> SubSeq(msg, 1, AES_BLOCKS)]

\* Mutation of cbc_mac_4x2: a low chain reads its neighbour's message.
Mutcbc_mac_4x2(arch, rk_hi, rk_lo, msgs) ==
  [i \in 1 .. 4 |->
     <<[rounds |-> AesRounds4(arch), rk |-> rk_hi,
        blocks |-> [b \in 1 .. AES_BLOCKS |-> msgs[i][b]]],
       [rounds |-> AesRounds4(arch), rk |-> rk_lo,
        blocks |-> [b \in 1 .. AES_BLOCKS |-> msgs[(i % 4) + 1][b]]]>>]

\* Four messages, eight chains in step: h_i and l_i absorb block b of message i.
cbc_mac_4x2(arch, rk_hi, rk_lo, msgs) ==
  [i \in 1 .. 4 |->
     <<[rounds |-> AesRounds4(arch), rk |-> rk_hi,
        blocks |-> [b \in 1 .. AES_BLOCKS |-> msgs[i][b]]],
       [rounds |-> AesRounds4(arch), rk |-> rk_lo,
        blocks |-> [b \in 1 .. AES_BLOCKS |-> msgs[i][b]]]>>]

----------------------------------------------------------------------------
(* SHA-256: group g of four rounds uses the constants from K[k] and the     *)
(* schedule words from W[w] on; here as <<k, w>>.                           *)

PortableRounds == [g \in 0 .. 15 |-> <<4 * g, 4 * g>>]

\* vsha256su0q_u32 and vsha256su1q_u32 on registers that start at W[a] .. W[d].
Sched(a, b, c, d) == IF <<b, c, d>> = <<a + 4, a + 8, a + 12>> THEN a + 16 ELSE -1

\* SHA256_ROUNDS4 of group g: register g replaced by the words 16 further on.
NextRegisters(m, g) ==
  [m EXCEPT ![g % 4] = Sched(m[g % 4], m[(g + 1) % 4], m[(g + 2) % 4], m[(g + 3) % 4])]

\* The registers msg0 .. msg3 before group g; the last four groups only read.
MsgRegisters ==
  LET regs[g \in 0 .. 15] ==
        IF g = 0 THEN [r \in 0 .. 3 |-> 4 * r]
        ELSE CHOOSE x \in {IF g <= 12 THEN NextRegisters(m, g - 1) ELSE m :
                              m \in {regs[g - 1]}} : TRUE
  IN  regs

NeonRounds == [g \in 0 .. 15 |-> <<4 * g, MsgRegisters[g][g % 4]>>]

ShaRounds(arch) ==
  Named(IF arch = "arm" THEN NeonRounds ELSE PortableRounds,
        [g \in 0 .. 15 |-> <<4 * g, 4 * g>>], "SHA-256")

\* The buffer has 256 bytes and the bit count always goes to its end.
pose_sha256(arch, msg, len) ==
  LET end     == len \div 16
      padded  == [p \in 1 .. 16 |->
                    CASE p <= end    -> msg[p]
                      [] p = end + 1 -> <<"0x80">>
                      [] p = 16      -> <<"bits", len * 8>>
                      [] OTHER       -> Zero]
      nblocks == (len + 1 + 8 + 63) \div 64
  IN  [rounds |-> ShaRounds(arch), rk |-> NULL,
       blocks |-> SubSeq(padded, 1, 4 * nblocks)]

----------------------------------------------------------------------------
(* BLAKE3: seven rounds, each mixing the 16 message words in another order. *)

MSG_SCHEDULE ==
  << <<0, 1, 2, 3, 4, 5, 6, 7, 8, 9, 10, 11, 12, 13, 14, 15>>,
     <<2, 6, 3, 10, 7, 0, 4, 13, 1, 11, 12, 5, 9, 14, 15, 8>>,
     <<3, 4, 10, 12, 13, 2, 7, 14, 6, 5, 9, 0, 11, 15, 8, 1>>,
     <<10, 7, 12, 9, 14, 3, 13, 15, 4, 0, 11, 2, 5, 8, 1, 6>>,
     <<12, 13, 9, 11, 15, 10, 14, 8, 7, 2, 5, 3, 0, 1, 6, 4>>,
     <<9, 14, 11, 5, 8, 12, 15, 1, 13, 3, 0, 10, 2, 6, 4, 7>>,
     <<11, 15, 5, 0, 1, 9, 8, 6, 14, 10, 2, 12, 3, 4, 7, 13>> >>

kMsgPermutation == <<2, 6, 3, 10, 7, 0, 4, 13, 1, 11, 12, 5, 9, 14, 15, 8>>

\* compress on the device permutes the words between the rounds, six times.
GpuSchedule ==
  LET m[r \in 1 .. 7] ==
        IF r = 1 THEN [i \in 1 .. 16 |-> i - 1]
        ELSE [i \in 1 .. 16 |-> m[r - 1][kMsgPermutation[i] + 1]]
  IN  [r \in 1 .. 7 |-> m[r]]

\* 192 bytes in three blocks of four pieces.
build_node_msg(i, p0, p1, seed, desc) ==
  <<IndexBytes(i), Zero, Zero, Zero>> \o OrZero(p0) \o OrZero(p1) \o seed \o desc

NODE_MSG_BYTES == 192

\* One input of blake3_hash_many, as hash.c calls it: the first block is marked
\* flags_start, the last flags_end.
blake3_hash_one(k, msg, blocks) ==
  [rounds |-> <<"BLAKE3">>, rk |-> k,
   blocks |-> [b \in 1 .. blocks |->
                 <<SubSeq(msg, 4 * b - 3, 4 * b),
                   {"KEYED_HASH"} \cup (IF b = 1 THEN {"CHUNK_START"} ELSE {})
                     \cup (IF b = blocks THEN {"CHUNK_END", "ROOT"} ELSE {})>>]]

\* The bytes of a little-endian word, and of the word byte-swapped.
LeBytes(v) == [b \in 1 .. 4 |-> Shifted(v)[b - 1] % Radix]
bswap32(v) == [b \in 1 .. 4 |-> LeBytes(v)[5 - b]]

\* The values of a uint32_t, and the two halves of a uint64_t.
Word32  == Radix * Radix * Radix * Radix
Low(v)  == v % Word32
High(v) == Shifted(v)[4] % Word32

\* 32 bytes as two 16-byte loads.
load_label_words(p) == <<p[1], p[2]>>

\* Mutation of label_node: the halves of the index are not swapped.
Mutlabel_node(k, i, p0, p1, seed, desc) ==
  LET index == bswap32(Low(i)) \o bswap32(High(i))
      load(p) == IF p = NULL THEN Zero32 ELSE load_label_words(p)
  IN  [rounds |-> Named(GpuSchedule, MSG_SCHEDULE, "BLAKE3"), rk |-> k,
       blocks |-> << << <<index, Zero, Zero, Zero>>, {"KEYED_HASH", "CHUNK_START"} >>,
                     << load(p0) \o load(p1), {"KEYED_HASH"} >>,
                     << load_label_words(seed) \o load_label_words(desc),
                        {"KEYED_HASH", "CHUNK_END", "ROOT"} >> >>]

\* The device's hash of one node, its blocks assembled as little-endian words.
label_node(k, i, p0, p1, seed, desc) ==
  LET index == bswap32(High(i)) \o bswap32(Low(i))
      load(p) == IF p = NULL THEN Zero32 ELSE load_label_words(p)
  IN  [rounds |-> Named(GpuSchedule, MSG_SCHEDULE, "BLAKE3"), rk |-> k,
       blocks |-> << << <<index, Zero, Zero, Zero>>, {"KEYED_HASH", "CHUNK_START"} >>,
                     << load(p0) \o load(p1), {"KEYED_HASH"} >>,
                     << load_label_words(seed) \o load_label_words(desc),
                        {"KEYED_HASH", "CHUNK_END", "ROOT"} >> >>]
============================================================================
