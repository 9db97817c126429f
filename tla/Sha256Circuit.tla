---------------------------- MODULE Sha256Circuit ----------------------------
(***************************************************************************)
(* SHA-256 as a circuit, sha256.rs: make_circuits lays out the rounds of   *)
(* every block one after the other, and a step of this module is a round.  *)
(* The words have their 32 bits; as TLC's integers are narrower, a word is *)
(* a pair of 16-bit halves, the higher one first.                          *)
(***************************************************************************)
EXTENDS Bits

CONSTANT Messages  \* bound: the messages that are hashed, as bits

ASSUME MessagesAssumption == \A m \in Messages : m \in Seq({0, 1}) /\ Len(m) < 2 ^ 16

VARIABLES
  message,  \* the padded message
  state,    \* the hash of the blocks done
  x,        \* the 16 words of the schedule that are kept
  work,     \* a, b, c, d, e, f, g and h
  round,    \* the rounds of this block that are done
  blk       \* the blocks that are done

shaVars == <<message, state, x, work, round, blk>>

-----------------------------------------------------------------------------
(* Words *)

Half == 0 .. 2 ^ 16 - 1

Word == Half \X Half

H256 ==
  <<<<\h6A09, \hE667>>, <<\hBB67, \hAE85>>, <<\h3C6E, \hF372>>, <<\hA54F, \hF53A>>,
    <<\h510E, \h527F>>, <<\h9B05, \h688C>>, <<\h1F83, \hD9AB>>, <<\h5BE0, \hCD19>>>>

K256 ==
  <<<<\h428A, \h2F98>>, <<\h7137, \h4491>>, <<\hB5C0, \hFBCF>>, <<\hE9B5, \hDBA5>>,
    <<\h3956, \hC25B>>, <<\h59F1, \h11F1>>, <<\h923F, \h82A4>>, <<\hAB1C, \h5ED5>>,
    <<\hD807, \hAA98>>, <<\h1283, \h5B01>>, <<\h2431, \h85BE>>, <<\h550C, \h7DC3>>,
    <<\h72BE, \h5D74>>, <<\h80DE, \hB1FE>>, <<\h9BDC, \h06A7>>, <<\hC19B, \hF174>>,
    <<\hE49B, \h69C1>>, <<\hEFBE, \h4786>>, <<\h0FC1, \h9DC6>>, <<\h240C, \hA1CC>>,
    <<\h2DE9, \h2C6F>>, <<\h4A74, \h84AA>>, <<\h5CB0, \hA9DC>>, <<\h76F9, \h88DA>>,
    <<\h983E, \h5152>>, <<\hA831, \hC66D>>, <<\hB003, \h27C8>>, <<\hBF59, \h7FC7>>,
    <<\hC6E0, \h0BF3>>, <<\hD5A7, \h9147>>, <<\h06CA, \h6351>>, <<\h1429, \h2967>>,
    <<\h27B7, \h0A85>>, <<\h2E1B, \h2138>>, <<\h4D2C, \h6DFC>>, <<\h5338, \h0D13>>,
    <<\h650A, \h7354>>, <<\h766A, \h0ABB>>, <<\h81C2, \hC92E>>, <<\h9272, \h2C85>>,
    <<\hA2BF, \hE8A1>>, <<\hA81A, \h664B>>, <<\hC24B, \h8B70>>, <<\hC76C, \h51A3>>,
    <<\hD192, \hE819>>, <<\hD699, \h0624>>, <<\hF40E, \h3585>>, <<\h106A, \hA070>>,
    <<\h19A4, \hC116>>, <<\h1E37, \h6C08>>, <<\h2748, \h774C>>, <<\h34B0, \hBCB5>>,
    <<\h391C, \h0CB3>>, <<\h4ED8, \hAA4A>>, <<\h5B9C, \hCA4F>>, <<\h682E, \h6FF3>>,
    <<\h748F, \h82EE>>, <<\h78A5, \h636F>>, <<\h84C8, \h7814>>, <<\h8CC7, \h0208>>,
    <<\h90BE, \hFFFA>>, <<\hA450, \h6CEB>>, <<\hBEF9, \hA3F7>>, <<\hC671, \h78F2>>>>

U32ToBits(a) == BitsOf(a[1], 16) \o BitsOf(a[2], 16)

BitsToU32(bits) == <<BitsValue(SubSeq(bits, 1, 16)), BitsValue(SubSeq(bits, 17, 32))>>

\* add_u32: the carry of the sum is dropped.
AddU32(a, b) ==
  LET low == a[2] + b[2]
  IN  <<(a[1] + b[1] + (low \div 2 ^ 16)) % 2 ^ 16, low % 2 ^ 16>>

\* Which bit of the word comes to each place; a shift takes the bit 33, the
\* constant zero that sigma0 and sigma1 append.
Rotate32(y) == [i \in 1 .. 32 |-> IF i <= y THEN 32 - y + i ELSE i - y]

Shift32(y) == [i \in 1 .. 32 |-> IF i <= y THEN 33 ELSE i - y]

\* Formulas over numbers that are 0 or 1.
Xor3(a, b, c) == a * (1 - 2 * b - 2 * c + 4 * b * c) + b + c - 2 * b * c

XorOf(a, places) ==
  LET bits == U32ToBits(a) \o <<0>>
  IN  BitsToU32([i \in 1 .. 32 |->
        Xor3(bits[places[1][i]], bits[places[2][i]], bits[places[3][i]])])

BigSigma0(a) == XorOf(a, <<Rotate32(2), Rotate32(13), Rotate32(22)>>)

BigSigma1(a) == XorOf(a, <<Rotate32(6), Rotate32(11), Rotate32(25)>>)

Sigma0(a) == XorOf(a, <<Rotate32(7), Rotate32(18), Shift32(3)>>)

Sigma1(a) == XorOf(a, <<Rotate32(17), Rotate32(19), Shift32(10)>>)

Ch(a, b, c) ==
  LET p == U32ToBits(a)
      q == U32ToBits(b)
      r == U32ToBits(c)
  IN  BitsToU32([i \in 1 .. 32 |-> p[i] * (q[i] - r[i]) + r[i]])

Maj(a, b, c) ==
  LET p == U32ToBits(a)
      q == U32ToBits(b)
      r == U32ToBits(c)
  IN  BitsToU32([i \in 1 .. 32 |-> p[i] * (q[i] + r[i] - 2 * q[i] * r[i]) + q[i] * r[i]])

-----------------------------------------------------------------------------
(* The message *)

BlockCount(len) == (len + 65 + 511) \div 512

PaddingLength(len) == 512 * BlockCount(len) - 64 - len

\* make_circuits asserts p > 1: it has no circuit for messages 65 bits short
\* of a multiple of 512.
CanBuild(len) == PaddingLength(len) > 1

\* The length in 64 bits; that of the messages here fits into 16.
Padded(m) ==
  m \o <<1>> \o Zeros(PaddingLength(Len(m)) - 1) \o Zeros(48) \o BitsOf(Len(m), 16)

-----------------------------------------------------------------------------

ShaInit ==
  /\ \E m \in Messages : CanBuild(Len(m)) /\ message = Padded(m)
  /\ state = H256
  /\ work = H256
  /\ x = <<>>
  /\ round = 0
  /\ blk = 0

ShaDone == 512 * blk = Len(message)

\* A round: t1 and t2 from the working variables and a word, which move on.
Round(w, k, word) ==
  LET t1 == AddU32(AddU32(AddU32(AddU32(w[8], BigSigma1(w[5])), Ch(w[5], w[6], w[7])), k), word)
      t2 == AddU32(BigSigma0(w[1]), Maj(w[1], w[2], w[3]))
  IN  <<AddU32(t1, t2), w[1], w[2], w[3], AddU32(w[4], t1), w[5], w[6], w[7]>>

\* The first 16 rounds take their word from the message.
FirstRound ==
  /\ ~ShaDone /\ round < 16
  /\ LET index == 512 * blk + 32 * round
         word == BitsToU32(SubSeq(message, index + 1, index + 32))
     IN  /\ x' = Append(x, word)
         /\ work' = Round(work, K256[round + 1], word)
  /\ round' = round + 1
  /\ UNCHANGED <<message, state, blk>>

\* Mutant: the word seven places on, where the word of seven rounds ago is.
ScheduledLate(w, i) ==
  AddU32(w[(i % 16) + 1],
         AddU32(AddU32(Sigma0(w[((i + 1) % 16) + 1]), Sigma1(w[((i + 14) % 16) + 1])),
                w[((i + 7) % 16) + 1]))

\* The next word of the schedule; it replaces the one of 16 rounds ago.
Scheduled(w, i) ==
  AddU32(w[(i % 16) + 1],
         AddU32(AddU32(Sigma0(w[((i + 1) % 16) + 1]), Sigma1(w[((i + 14) % 16) + 1])),
                w[((i + 9) % 16) + 1]))

LaterRound ==
  /\ round \in 16 .. 63
  /\ x' = [x EXCEPT ![(round % 16) + 1] = Scheduled(x, round)]
  /\ work' = Round(work, K256[round + 1], Scheduled(x, round))
  /\ round' = round + 1
  /\ UNCHANGED <<message, state, blk>>

\* Mutant: the words of the block before stay in the schedule.
EndWithoutReset ==
  /\ round = 64
  /\ state' = [i \in 1 .. 8 |-> AddU32(state[i], work[i])]
  /\ work' = state'
  /\ round' = 0
  /\ blk' = blk + 1
  /\ UNCHANGED <<message, x>>

EndOfBlock ==
  /\ round = 64
  /\ state' = [i \in 1 .. 8 |-> AddU32(state[i], work[i])]
  /\ work' = state'
  /\ x' = <<>>
  /\ round' = 0
  /\ blk' = blk + 1
  /\ UNCHANGED message

ShaNext == FirstRound \/ LaterRound \/ EndOfBlock

Digest == FlattenSeq([i \in 1 .. 8 |-> U32ToBits(state[i])])

\* The values every variable keeps to.
ShaTypeOK ==
  /\ message \in Seq({0, 1})
  /\ state \in Seq(Word) /\ Len(state) = 8
  /\ work \in Seq(Word) /\ Len(work) = 8
  /\ x \in Seq(Word) /\ Len(x) = (IF round < 16 THEN round ELSE 16)
  /\ round \in 0 .. 64
  /\ blk \in 0 .. Len(message) \div 512
=============================================================================
