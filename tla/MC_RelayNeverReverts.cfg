SPECIFICATION MessengerSpec
CONSTANTS
  up1 = up1
  up2 = up2
  upOld = upOld
  down1 = down1
  down2 = down2
  downUnsafe = downUnsafe
  alice = alice
  bob = bob
  Messages <- MCMessages
  To <- MCTo
  Value <- MCValue
  Sender <- MCSender
  UnsafeTarget <- MCUnsafe
  RelayedLegacy <- MCLegacy
  Senders <- MCSenders
  DEFAULT_L2_SENDER = noSender
INVARIANT RelayNeverReverts
