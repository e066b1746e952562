----------------------------- MODULE MCSampler -----------------------------
(* Two sensors, one on each ADC, with the filter's constants of the code. *)
EXTENDS Sampler

CONSTANTS z1, z2

Sensors == <<z1, z2>>
Zones == [s \in {z1, z2} |-> IF s = z1 THEN 72 ELSE 73]

\* (adc / 14.56) ** (1 / 1.05) is close to adc / 17 up to 1000.
RoundedGrams == [c \in 0..1000 |-> c \div 17]
=============================================================================
