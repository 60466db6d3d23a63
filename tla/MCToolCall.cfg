\* int32_t of 4 bits, int64_t of 8, two topics, up to two items from Kafka.
CONSTANTS
  t1 = t1
  t2 = t2
  Topics = {t1, t2}
  Within <- MCWithin
  Absent = Absent
  Empty = Empty
  Garbled = Garbled
  Truth = Truth
  Numbers <- MCNumbers
  Half32 = 8
  Half64 = 128
  DefaultMax = 2
  DefaultBytes = 7
  Mark = 2
  MaxItems = 2
SPECIFICATION Spec
INVARIANTS
  TypeOK
  
  WithinLimits
  ArgumentsMeanTheSame
  ShowsWhatKafkaSaid
