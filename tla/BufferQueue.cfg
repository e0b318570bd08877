\* Two decoders' worth of readers, two writers, a queue of up to three items.
CONSTANTS
  Readers = {r1, r2, r3}
  Writers = {w1, w2}
  Items = {b1, b2}
  MaxLen = 3
SPECIFICATION FairSpec
INVARIANTS
  TypeOK
  NoLostWakeup
PROPERTY ItemsAreTaken
