---------------------------- MODULE MCPwmTimers -----------------------------
(* Two timers of three channels, the third on a hardware timer of its own. *)
EXTENDS Servo, TLC

\* A buzzer, another with the frequency of two relays, with which it fills a
\* timer, and a servo that is used at its own frequency, at the buzzer's, and
\* at two widths.
FixedFreq == [p \in TonePin |-> IF p = "horn" THEN {WriteFreq} ELSE {835}]
Widths ==
  [p \in ServoPin |->
     [freq : {50, 835}, bits : {DefaultBits}] \cup [freq : {50}, bits : {20}]]

\* The relays are alike: no definition tells one from the other.
Relays == Permutations(WritePin)

\* Buzzers that play melodies.
Melody == [p \in TonePin |-> {835, 900}]
NoServo == [p \in {} |-> {}]

=============================================================================
