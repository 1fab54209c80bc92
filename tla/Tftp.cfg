SPECIFICATION Spec
CONSTANTS
  FileLen = 7
  Modulus = 4
  TFTP_DEF_BLKSIZE = 2
  TFTP_MIN_BLKSIZE = 1
  TFTP_RETRIES = 3
  WantSizes = {0, 1, 3}
  ServerSizes = {1, 2, 3}
  Tids = {t1, t2}
  NoTid = notid
SYMMETRY ServerSymmetry
INVARIANTS
  TypeOK
  LockStep
  NoApprentice
PROPERTIES
  IsTransfer
CHECK_DEADLOCK FALSE
