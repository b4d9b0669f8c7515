SPECIFICATION Spec
CONSTANTS
  Options <- RenegotiatingLive
  MaxApp = 1
  NetCap = 2
PROPERTIES
  HandshakeCompletes
  RenegotiationHappens
