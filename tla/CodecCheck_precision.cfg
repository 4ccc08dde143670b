\* A number type narrower than the dpid: 12-bit dpids, 9-bit significand (64 over 53 bits, scaled).
CONSTANTS
  Width = 3
  Mantissa = 9
SPECIFICATION Spec
INVARIANT LabelExact
