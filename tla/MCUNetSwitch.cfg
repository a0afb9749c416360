CONSTANT MaxVersion = 1
SPECIFICATION Spec
PROPERTY ActiveShown
