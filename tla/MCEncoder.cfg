SPECIFICATION Spec
CONSTANTS
  Phones <- ThePhones
  MaxSdk = 2
  MaxVersion = 2
  Width = 6
  Height = 4
INVARIANTS TypeOK OneEncoderAtATime ResultInForce TestedOnce  FedAsWanted
