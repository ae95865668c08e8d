SPECIFICATION Spec
CONSTANT
  RandomKeys = {k1, k2, k3, k4, k5, k6, k7, k8, k9, k10, k11, k12, k13, k14, k15, k16, k17, k18, k19, k20}
INVARIANT
  DisplayedTagDecides
CHECK_DEADLOCK FALSE
