SPECIFICATION MCSpec
CONSTANTS
  Parts = {"stdin", "shell", "address", "stub", "packets", "hooks", "printf", "joystick"}
  t1 = t1
  t2 = t2
  usb = usb
  NULL = NULL
PROPERTIES
  CallersAnswered GdbAnswered OutputComesOut
CHECK_DEADLOCK FALSE
