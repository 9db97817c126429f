------------------------------ MODULE MCCircuits ------------------------------
(***************************************************************************)
(* Limbs of four bits and bytes of two: the numbers of 64 bits have eight  *)
(* here, an epoch four slots, a hash 32 bits and a registry 16 places,     *)
(* which are two groups of balances.                                       *)
(***************************************************************************)
EXTENDS Circuits

MCOperands == UNION {[1 .. n -> {0, 1, 4, 15}] : n \in 0 .. 2}

\* "", "abc", 512 zeros and the message of 448 bits of the standard.
Text(bytes) == FlattenSeq([i \in DOMAIN bytes |-> BitsOf(bytes[i], 8)])

TwoBlocks == [i \in 1 .. 56 |-> 97 + ((i - 1) \div 4) + ((i - 1) % 4)]

MCKnownDigests ==
  (<<>> :> <<<<\hE3B0, \hC442>>, <<\h98FC, \h1C14>>, <<\h9AFB, \hF4C8>>, <<\h996F, \hB924>>,
             <<\h27AE, \h41E4>>, <<\h649B, \h934C>>, <<\hA495, \h991B>>, <<\h7852, \hB855>>>>)
  @@ (Text(<<97, 98, 99>>) :>
       <<<<\hBA78, \h16BF>>, <<\h8F01, \hCFEA>>, <<\h4141, \h40DE>>, <<\h5DAE, \h2223>>,
         <<\hB003, \h61A3>>, <<\h9617, \h7A9C>>, <<\hB410, \hFF61>>, <<\hF200, \h15AD>>>>)
  @@ (Zeros(512) :>
       <<<<\hF5A5, \hFD42>>, <<\hD16A, \h2030>>, <<\h2798, \hEF6E>>, <<\hD309, \h979B>>,
         <<\h4300, \h3D23>>, <<\h20D9, \hF0E8>>, <<\hEA98, \h31A9>>, <<\h2759, \hFB4B>>>>)
  @@ (Text(TwoBlocks) :>
       <<<<\h248D, \h6A61>>, <<\hD206, \h38B8>>, <<\hE5C0, \h2693>>, <<\h0C3E, \h6039>>,
         <<\hA33C, \hE459>>, <<\h64FF, \h2167>>, <<\hF6EC, \hEDD4>>, <<\h19DB, \h06C1>>>>)

MCMessages == DOMAIN MCKnownDigests

-----------------------------------------------------------------------------

MCCredentials == Zeros(24) \o BitsOf(165, 8)

OtherCredentials == Zeros(24) \o BitsOf(166, 8)

\* At epoch 2: active, of someone else, not yet active, active from now,
\* exiting now and exiting next.
Validator(i) ==
  [pubkey |-> Zeros(40) \o BitsOf(i, 8),
   withdrawalCredentials |-> IF i % 6 = 1 THEN OtherCredentials ELSE MCCredentials,
   effectiveBalance |-> 32, slashed |-> FALSE, activationEligibilityEpoch |-> 0,
   activationEpoch |-> CASE i % 6 = 2 -> 3 [] i % 6 = 3 -> 2 [] OTHER -> 1,
   exitEpoch |-> CASE i % 6 = 4 -> 2 [] i % 6 = 5 -> 3 [] OTHER -> 255,
   withdrawableEpoch |-> 255]

Validators(n) == [i \in 1 .. n |-> Validator(i)]

\* Those of sixteen sum up to more than a number holds.
Balances(n) == [i \in 1 .. n |-> 9 * i + 17]

Plain(n) ==
  [mapped |-> Validators(n), validators |-> Validators(n), balances |-> Balances(n), slot |-> 9,
   counted |-> Validators(n), countedBalances |-> Balances(n), epochs |-> <<2, 2>>, take |-> n,
   credentials |-> BitsValue(MCCredentials)]

Slashed(n) == [Validators(n) EXCEPT ![n].slashed = TRUE]

\* Every one of these is about more than one state or has an odd setting.
Mixed ==
  LET r == Plain(14)
      exited == [Validators(14) EXCEPT ![6].exitEpoch = 2]
      paid == [Balances(14) EXCEPT ![9] = 200]
  IN  {[r EXCEPT !.mapped = exited], [r EXCEPT !.counted = exited],
       [r EXCEPT !.validators = exited], [r EXCEPT !.countedBalances = paid],
       [r EXCEPT !.balances = paid], [r EXCEPT !.take = 16], [r EXCEPT !.credentials = 0],
       [r EXCEPT !.epochs = <<2, 3>>], [r EXCEPT !.epochs = <<3, 3>>],
       [r EXCEPT !.epochs = <<1, 1>>, !.slot = 8], [r EXCEPT !.slot = 8],
       [r EXCEPT !.slot = 11], [r EXCEPT !.slot = 12],
       [Plain(6) EXCEPT !.mapped = Validators(14)],
       [r EXCEPT !.mapped = Slashed(14), !.counted = Slashed(14), !.validators = Slashed(14)]}

MCRegistries == {Plain(n) : n \in {1, 2, 5, 6, 7, 8, 10, 13, 14, 15, 16}} \cup Mixed
===============================================================================
